---- MODULE Spec2Model ----
(***************************************************************************)
(* Model of the holiday API's record store (lib/dataLoader.js) and of its  *)
(* predicate/transform library (lib/filters.js).                           *)
(*                                                                         *)
(* JavaScript strings are sequences of one-character strings, so that      *)
(* trim, toLowerCase, split, join, includes and parseInt are computed      *)
(* character by character.  Fixed message texts are single multi-character *)
(* elements of such a sequence.  Instants are minutes since                *)
(* 1970-01-01T00:00Z (the records carry minute precision).                 *)
(***************************************************************************)
EXTENDS Integers, Sequences, FiniteSets, TLC

VARIABLES
    files,          \* the years directory: file name -> content
    availableYears, \* DataLoader.availableYears
    cache,          \* DataLoader.cache: String(year) -> parsed collection
    reads,          \* instrument: file name -> number of readFileSync calls
    call,           \* the operation called and its arguments
    ret,            \* what the operation returned or threw
    pc              \* "call": the operation is about to run; "done": it has returned

vars == <<files, availableYears, cache, reads, call, ret, pc>>

(***************************************************************************)
(* Bounds of the model.                                                    *)
(***************************************************************************)
MaxReads == 2
MaxLen == 2
MaxEntries == 2

(***************************************************************************)
(* JavaScript values and strings.                                          *)
(***************************************************************************)
\* values that are no strings: undefined, null, and the array that a repeated
\* query parameter becomes (no string holds a multi-character element)
Undefined == <<"undefined">>
Null == <<"null">>
AnArray == <<"array">>
IsString(v) == v \notin {Undefined, Null, AnArray}
Falsy(v) == v \in {Undefined, Null, << >>}
Num(n) == [t |-> "num", n |-> n, s |-> << >>]
Str(s) == [t |-> "str", n |-> 0, s |-> s]

Ok(v) == [ok |-> TRUE, val |-> v]
Err(m) == [ok |-> FALSE, msg |-> m]
NoRet == [ok |-> TRUE, val |-> << >>]

digits == <<"0","1","2","3","4","5","6","7","8","9">>
lowerLetters == <<"a","b","c","d","e","f","g","h","i","j","k","l","m","n","o","p","q","r","s","t","u","v","w","x","y","z">>
upperLetters == <<"A","B","C","D","E","F","G","H","I","J","K","L","M","N","O","P","Q","R","S","T","U","V","W","X","Y","Z">>

IsDigit(c) == \E i \in 1..10 : digits[i] = c
DigitVal(c) == (CHOOSE i \in 1..10 : digits[i] = c) - 1

RECURSIVE NatStr(_)
NatStr(n) == IF n < 10 THEN <<digits[n + 1]>>
             ELSE NatStr(n \div 10) \o <<digits[(n % 10) + 1]>>

NumberToString(n) == IF n < 0 THEN <<"-">> \o NatStr(-n) ELSE NatStr(n)

JSString(v) == IF v.t = "num" THEN NumberToString(v.n) ELSE v.s

toLowerChar(c) ==
    IF \E i \in 1..26 : upperLetters[i] = c
    THEN lowerLetters[CHOOSE i \in 1..26 : upperLetters[i] = c]
    ELSE c

toUpperChar(c) ==
    IF \E i \in 1..26 : lowerLetters[i] = c
    THEN upperLetters[CHOOSE i \in 1..26 : lowerLetters[i] = c]
    ELSE c

toLowerCase(s) == [i \in 1..Len(s) |-> toLowerChar(s[i])]
toUpperCase(s) == [i \in 1..Len(s) |-> toUpperChar(s[i])]

IsSpace(c) == c \in {" ", "\t", "\n"}

RECURSIVE trimStart(_)
trimStart(s) == IF s # << >> /\ IsSpace(Head(s)) THEN trimStart(Tail(s)) ELSE s

RECURSIVE trimEnd(_)
trimEnd(s) == IF s # << >> /\ IsSpace(s[Len(s)])
              THEN trimEnd(SubSeq(s, 1, Len(s) - 1)) ELSE s

trim(s) == trimEnd(trimStart(s))

\* s.split(sep) for a one-character separator: "" splits into [""]
RECURSIVE splitFrom(_, _, _)
splitFrom(s, sep, cur) ==
    IF s = << >> THEN <<cur>>
    ELSE IF Head(s) = sep THEN <<cur>> \o splitFrom(Tail(s), sep, << >>)
    ELSE splitFrom(Tail(s), sep, Append(cur, Head(s)))

split(s, sep) == splitFrom(s, sep, << >>)

RECURSIVE join(_, _)
join(parts, sep) ==
    IF parts = << >> THEN << >>
    ELSE IF Len(parts) = 1 THEN parts[1]
    ELSE parts[1] \o sep \o join(Tail(parts), sep)

includes(s, sub) ==
    \E i \in 0..(Len(s) - Len(sub)) : SubSeq(s, i + 1, i + Len(sub)) = sub

endsWith(s, suffix) ==
    /\ Len(suffix) <= Len(s)
    /\ SubSeq(s, Len(s) - Len(suffix) + 1, Len(s)) = suffix

\* s.replace(pat, '') with a string pattern: the first occurrence only
replaceFirst(s, pat) ==
    IF includes(s, pat)
    THEN LET i == CHOOSE k \in 0..(Len(s) - Len(pat)) :
                     /\ SubSeq(s, k + 1, k + Len(pat)) = pat
                     /\ \A j \in 0..(k - 1) : SubSeq(s, j + 1, j + Len(pat)) # pat
         IN SubSeq(s, 1, i) \o SubSeq(s, i + Len(pat) + 1, Len(s))
    ELSE s

\* parseInt(s) without a radix, decimal digits: leading white space and a
\* sign are skipped, the longest digit prefix is converted, NaN without one
RECURSIVE digitPrefix(_)
digitPrefix(s) == IF s # << >> /\ IsDigit(Head(s))
                  THEN <<Head(s)>> \o digitPrefix(Tail(s)) ELSE << >>

RECURSIVE digitsValue(_)
digitsValue(ds) == IF ds = << >> THEN 0
                   ELSE 10 * digitsValue(SubSeq(ds, 1, Len(ds) - 1)) + DigitVal(ds[Len(ds)])

parseInt(s) ==
    LET t == trimStart(s)
        neg == t # << >> /\ Head(t) = "-"
        signed == t # << >> /\ Head(t) \in {"-", "+"}
        ds == digitPrefix(IF signed THEN Tail(t) ELSE t)
    IN IF ds = << >> THEN [nan |-> TRUE, n |-> 0]
       ELSE [nan |-> FALSE, n |-> IF neg THEN -digitsValue(ds) ELSE digitsValue(ds)]

\* Array.prototype.sort() without a comparator orders by the UTF-16 code
\* units of the elements' string forms
charOrder == <<"\t","\n"," ","+","-","0","1","2","3","4","5","6","7","8","9">>
CharRank(c) == IF \E i \in 1..Len(charOrder) : charOrder[i] = c
               THEN CHOOSE i \in 1..Len(charOrder) : charOrder[i] = c
               ELSE Len(charOrder) + 1

RECURSIVE stringLess(_, _)
stringLess(a, b) ==
    IF b = << >> THEN FALSE
    ELSE IF a = << >> THEN TRUE
    ELSE IF Head(a) = Head(b) THEN stringLess(Tail(a), Tail(b))
    ELSE CharRank(Head(a)) < CharRank(Head(b))

RECURSIVE insertSorted(_, _)
insertSorted(sorted, n) ==
    IF sorted = << >> THEN <<n>>
    ELSE IF stringLess(NumberToString(n), NumberToString(Head(sorted)))
         THEN <<n>> \o sorted
         ELSE <<Head(sorted)>> \o insertSorted(Tail(sorted), n)

RECURSIVE defaultSort(_)
defaultSort(s) == IF s = << >> THEN << >>
                  ELSE insertSorted(defaultSort(SubSeq(s, 1, Len(s) - 1)), s[Len(s)])

(***************************************************************************)
(* Holiday records and the years directory.                                *)
(***************************************************************************)
Holiday(name, year, stateCode, start, end) ==
    [start |-> start, end |-> end, year |-> year, stateCode |-> stateCode,
     name |-> name,
     slug |-> name \o <<"-">> \o NatStr(year) \o <<"-">> \o stateCode]

sommerBY2024 == Holiday(<<"s","o","m","m","e","r","f","e","r","i","e","n">>, 2024, <<"B","Y">>, <<"2","0","2","4","-","0","7","-","2","5","T","0","0",":","0","0","Z">>, <<"2","0","2","4","-","0","9","-","0","8","T","0","0",":","0","0","Z">>)
osterBW2024 == Holiday(<<"o","s","t","e","r","f","e","r","i","e","n">>, 2024, <<"B","W">>, <<"2","0","2","4","-","0","3","-","2","5","T","0","0",":","0","0","Z">>, <<"2","0","2","4","-","0","4","-","0","6","T","0","0",":","0","0","Z">>)
weihnachtBY2024 == Holiday(<<"w","e","i","h","n","a","c","h","t","s","f","e","r","i","e","n">>, 2024, <<"B","Y">>, <<"2","0","2","4","-","1","2","-","2","3","T","0","0",":","0","0","Z">>, <<"2","0","2","5","-","0","1","-","0","5","T","0","0",":","0","0","Z">>)
winterBY2025 == Holiday(<<"w","i","n","t","e","r","f","e","r","i","e","n">>, 2025, <<"B","Y">>, <<"2","0","2","5","-","0","3","-","0","3","T","0","0",":","0","0","Z">>, <<"2","0","2","5","-","0","3","-","0","7","T","0","0",":","0","0","Z">>)
winterBY999 == Holiday(<<"w","i","n","t","e","r","f","e","r","i","e","n">>, 999, <<"B","Y">>, <<"0","9","9","9","-","0","2","-","0","1","T","0","0",":","0","0","Z">>, <<"0","9","9","9","-","0","2","-","0","5","T","0","0",":","0","0","Z">>)
herbstBE2026 == Holiday(<<"h","e","r","b","s","t","f","e","r","i","e","n">>, 2026, <<"B","E">>, <<"2","0","2","6","-","1","0","-","1","9","T","0","0",":","0","0","Z">>, <<"2","0","2","6","-","1","0","-","3","1","T","0","0",":","0","0","Z">>)

\* what the directory can hold, in the order readdirSync lists it
DirCandidates == << <<"2","0","2","4",".","j","s","o","n">>, <<"2","0","2","5",".","j","s","o","n">>, <<"2","0","2","6",".","j","s","o","n">>, <<"2","0","2","7",".","j","s","o","n">>, <<"R","E","A","D","M","E",".","m","d">> >>

FileData(name) ==
    IF name = <<"2","0","2","4",".","j","s","o","n">> THEN <<sommerBY2024, osterBW2024, weihnachtBY2024>>
    ELSE IF name = <<"2","0","2","5",".","j","s","o","n">> THEN <<winterBY2025>>
    ELSE IF name = <<"2","0","2","6",".","j","s","o","n">> THEN <<herbstBE2026>>
    ELSE IF name = <<"9","9","9",".","j","s","o","n">> THEN <<winterBY999>>
    ELSE << >>

Parsed(data) == [ok |-> TRUE, data |-> data]
Malformed == [ok |-> FALSE, data |-> << >>]

dirListing == SelectSeq(DirCandidates, LAMBDA f : f \in DOMAIN files)

(***************************************************************************)
(* DataLoader                                                              *)
(***************************************************************************)
_getAvailableYears(listing) ==
    LET jsonFiles == SelectSeq(listing, LAMBDA file : endsWith(file, <<".","j","s","o","n">>))
        parsed == [i \in 1..Len(jsonFiles) |-> parseInt(replaceFirst(jsonFiles[i], <<".","j","s","o","n">>))]
        numbers == SelectSeq(parsed, LAMBDA p : ~p.nan)
    IN defaultSort([i \in 1..Len(numbers) |-> numbers[i].n])

Count(r, f) == IF f \in DOMAIN r THEN r[f] ELSE 0

\* readFileSync + JSON.parse of <years directory>/<fileName>
ReadFile(r, fileName) ==
    [reads |-> (fileName :> (Count(r, fileName) + 1)) @@ r,
     content |-> IF fileName \in DOMAIN files THEN files[fileName] ELSE Malformed]

\* loadYearData without the cache lookup of lines 32-35: every call reads the file
loadYearData_NoCacheCheck(st, year) ==
    LET yearStr == JSString(year)
        rd == ReadFile(st.reads, yearStr \o <<".","j","s","o","n">>)
    IN IF rd.content.ok
       THEN [cache |-> (yearStr :> rd.content.data) @@ st.cache, reads |-> rd.reads,
             ret |-> Ok(rd.content.data)]
       ELSE [cache |-> st.cache, reads |-> rd.reads,
             ret |-> Err(<<"Data for year ">> \o yearStr \o <<" not found or invalid">>)]

\* loadYearData that remembers a failed read as a year without records
loadYearData_CachingFailure(st, year) ==
    LET yearStr == JSString(year)
    IN IF yearStr \in DOMAIN st.cache
       THEN [cache |-> st.cache, reads |-> st.reads, ret |-> Ok(st.cache[yearStr])]
       ELSE LET rd == ReadFile(st.reads, yearStr \o <<".","j","s","o","n">>)
            IN IF rd.content.ok
               THEN [cache |-> (yearStr :> rd.content.data) @@ st.cache,
                     reads |-> rd.reads, ret |-> Ok(rd.content.data)]
               ELSE [cache |-> (yearStr :> << >>) @@ st.cache, reads |-> rd.reads,
                     ret |-> Err(<<"Data for year ">> \o yearStr
                                   \o <<" not found or invalid">>)]

loadYearData(st, year) ==
    LET yearStr == JSString(year)
    IN IF yearStr \in DOMAIN st.cache
       THEN [cache |-> st.cache, reads |-> st.reads, ret |-> Ok(st.cache[yearStr])]
       ELSE LET rd == ReadFile(st.reads, yearStr \o <<".","j","s","o","n">>)
            IN IF rd.content.ok
               THEN [cache |-> (yearStr :> rd.content.data) @@ st.cache,
                     reads |-> rd.reads, ret |-> Ok(rd.content.data)]
               ELSE [cache |-> st.cache, reads |-> rd.reads,
                     ret |-> Err(<<"Data for year ">> \o yearStr
                                   \o <<" not found or invalid">>)]

\* the loop of getAllData over this.availableYears: a failing year is skipped
RECURSIVE getAllDataFrom(_, _, _)
getAllDataFrom(st, years, allData) ==
    IF years = << >> THEN [cache |-> st.cache, reads |-> st.reads, ret |-> Ok(allData)]
    ELSE LET r == loadYearData(st, Num(Head(years)))
         IN getAllDataFrom([cache |-> r.cache, reads |-> r.reads], Tail(years),
                           IF r.ret.ok THEN allData \o r.ret.val ELSE allData)

getAllData(st) == getAllDataFrom(st, availableYears, << >>)

\* isHealthy that empties the cache before it loads the first year
isHealthy_Resetting(st) ==
    IF Len(availableYears) = 0
    THEN [cache |-> st.cache, reads |-> st.reads, ret |-> Ok(FALSE)]
    ELSE LET r == loadYearData([cache |-> [k \in {} |-> 0], reads |-> st.reads],
                               Num(availableYears[1]))
         IN [cache |-> r.cache, reads |-> r.reads, ret |-> Ok(r.ret.ok)]

isHealthy(st) ==
    IF Len(availableYears) = 0
    THEN [cache |-> st.cache, reads |-> st.reads, ret |-> Ok(FALSE)]
    ELSE LET r == loadYearData(st, Num(availableYears[1]))
         IN [cache |-> r.cache, reads |-> r.reads, ret |-> Ok(r.ret.ok)]

EmptyMap == [k \in {} |-> 0]
Store == [cache |-> cache, reads |-> reads]

\* the years a caller passes: as a number, or as a string
YearInputs == {Num(2024), Num(2025), Num(2026), Str(<<"2","0","2","4">>), Str(<<"2","0","2","6">>)}

ReadsBelowBound == \A f \in DOMAIN reads : reads[f] < MaxReads

InitStore ==
    /\ \E present \in SUBSET {DirCandidates[i] : i \in 1..Len(DirCandidates)} :
         \E bad \in SUBSET present :
            files = [f \in present |->
                       IF f \in bad \/ ~endsWith(f, <<".","j","s","o","n">>)
                       THEN Malformed ELSE Parsed(FileData(f))]
    /\ availableYears = _getAvailableYears(dirListing)
    /\ cache = EmptyMap
    /\ reads = EmptyMap
    /\ call = [fn |-> "constructor"]
    /\ ret = NoRet
    /\ pc = "done"

LoadYearData ==
    /\ ReadsBelowBound
    /\ \E year \in YearInputs :
         LET r == loadYearData(Store, year)
         IN /\ cache' = r.cache
            /\ reads' = r.reads
            /\ ret' = r.ret
            /\ call' = [fn |-> "loadYearData", year |-> year,
                        hit |-> JSString(year) \in DOMAIN cache]
    /\ UNCHANGED <<files, availableYears, pc>>

GetAllData ==
    /\ ReadsBelowBound
    /\ LET r == getAllData(Store)
       IN /\ cache' = r.cache
          /\ reads' = r.reads
          /\ ret' = r.ret
          /\ call' = [fn |-> "getAllData"]
    /\ UNCHANGED <<files, availableYears, pc>>

IsHealthy ==
    /\ ReadsBelowBound
    /\ LET r == isHealthy(Store)
       IN /\ cache' = r.cache
          /\ reads' = r.reads
          /\ ret' = r.ret
          /\ call' = [fn |-> "isHealthy"]
    /\ UNCHANGED <<files, availableYears, pc>>

GetAvailableYears ==
    /\ ret' = Ok(availableYears)
    /\ call' = [fn |-> "getAvailableYears"]
    /\ UNCHANGED <<files, availableYears, cache, reads, pc>>

ClearCache ==
    /\ cache' = EmptyMap
    /\ ret' = NoRet
    /\ call' = [fn |-> "clearCache"]
    /\ UNCHANGED <<files, availableYears, reads, pc>>

NextStore == LoadYearData \/ GetAllData \/ IsHealthy \/ GetAvailableYears \/ ClearCache

SpecStore == InitStore /\ [][NextStore]_vars

(***************************************************************************)
(* C1: with no clearCache in between, a year that is in the cache is never *)
(* read from the backing file again: every operation other than clearCache *)
(* leaves the read count of its file and its cache entry unchanged, a      *)
(* loadYearData of that year (number or equal decimal string) returns the  *)
(* cached collection, and the cached collection is the one the first read  *)
(* parsed from the file.                                                   *)
(***************************************************************************)
C1_CachedIsFileContent ==
    \A k \in DOMAIN cache :
        /\ (k \o <<".","j","s","o","n">>) \in DOMAIN files
        /\ files[k \o <<".","j","s","o","n">>].ok
        /\ cache[k] = files[k \o <<".","j","s","o","n">>].data

C1_StepKeepsCached ==
    call'.fn # "clearCache" =>
        \A k \in DOMAIN cache :
            /\ Count(reads', k \o <<".","j","s","o","n">>) = Count(reads, k \o <<".","j","s","o","n">>)
            /\ k \in DOMAIN cache'
            /\ cache'[k] = cache[k]
            /\ (call'.fn = "loadYearData" /\ call' # call /\ JSString(call'.year) = k)
                   => ret' = Ok(cache[k])

\* C1: a cached year is never read again and is served from the cache, which
\* holds what the first read parsed, until clearCache
C1_LoadedAtMostOnce == [](C1_CachedIsFileContent) /\ [][C1_StepKeepsCached]_vars

\* a year loaded once is asked for again as a string and served from the cache
C1_Witness ==
    /\ call.fn = "loadYearData"
    /\ call.year.t = "str"
    /\ call.hit
    /\ Count(reads, JSString(call.year) \o <<".","j","s","o","n">>) = 1
    /\ ret.ok

(***************************************************************************)
(* Dates.  A Date is [nan, t]: t minutes since 1970-01-01T00:00Z, nan for  *)
(* an Invalid Date, which compares false with everything.                  *)
(***************************************************************************)
MinutesPerDay == 1440

DateOf(t) == [nan |-> FALSE, t |-> t]
InvalidDate == [nan |-> TRUE, t |-> 0]

DateLE(a, b) == ~a.nan /\ ~b.nan /\ a.t <= b.t
DateGE(a, b) == ~a.nan /\ ~b.nan /\ a.t >= b.t
DateGT(a, b) == ~a.nan /\ ~b.nan /\ a.t > b.t

IsLeapYear(year) == year % 4 = 0 /\ (year % 100 # 0 \/ year % 400 = 0)

daysInMonth(year) ==
    <<31, IF IsLeapYear(year) THEN 29 ELSE 28, 31, 30, 31, 30, 31, 31, 30, 31, 30, 31>>

\* days from 0000-01-01 to the first day of the year (the year 0 is a leap year)
DaysBeforeYear(y) ==
    IF y = 0 THEN 0
    ELSE y * 365 + ((y - 1) \div 4) - ((y - 1) \div 100) + ((y - 1) \div 400) + 1

RECURSIVE DaysBeforeMonth(_, _)
DaysBeforeMonth(year, month) ==
    IF month = 1 THEN 0
    ELSE DaysBeforeMonth(year, month - 1) + daysInMonth(year)[month - 1]

\* Date.UTC(year, month - 1, day, hour, minute) in minutes
DateUTC(year, month, day, hour, minute) ==
    (DaysBeforeYear(year) + DaysBeforeMonth(year, month) + (day - 1)
        - DaysBeforeYear(1970)) * MinutesPerDay + hour * 60 + minute

AllDigits(s) == \A i \in 1..Len(s) : IsDigit(s[i])

\* Number(s) of a string of digits
Number(s) == digitsValue(s)

\* new Date(s) of a record's start or end: YYYY-MM-DDTHH:MMZ, with ":SS" allowed
newDate(s) ==
    LET wellFormed ==
            /\ Len(s) \in {17, 20}
            /\ AllDigits(SubSeq(s, 1, 4)) /\ s[5] = "-"
            /\ AllDigits(SubSeq(s, 6, 7)) /\ s[8] = "-"
            /\ AllDigits(SubSeq(s, 9, 10)) /\ s[11] = "T"
            /\ AllDigits(SubSeq(s, 12, 13)) /\ s[14] = ":"
            /\ AllDigits(SubSeq(s, 15, 16))
            /\ IF Len(s) = 17 THEN s[17] = "Z"
               ELSE s[17] = ":" /\ SubSeq(s, 18, 19) = <<"0", "0">> /\ s[20] = "Z"
        year == Number(SubSeq(s, 1, 4))
        month == Number(SubSeq(s, 6, 7))
        day == Number(SubSeq(s, 9, 10))
        hour == Number(SubSeq(s, 12, 13))
        minute == Number(SubSeq(s, 15, 16))
    IN IF /\ wellFormed
          /\ month \in 1..12
          /\ day \in 1..daysInMonth(year)[month]
          /\ hour \in 0..23
          /\ minute \in 0..59
       THEN DateOf(DateUTC(year, month, day, hour, minute))
       ELSE InvalidDate

\* /^\d{4}-\d{2}-\d{2}$/
dateRegex(s) ==
    /\ Len(s) = 10
    /\ AllDigits(SubSeq(s, 1, 4)) /\ s[5] = "-"
    /\ AllDigits(SubSeq(s, 6, 7)) /\ s[8] = "-"
    /\ AllDigits(SubSeq(s, 9, 10))

parseDate(dateStr) ==
    IF Falsy(dateStr) \/ ~IsString(dateStr)
    THEN Err(<<"Date must be a non-empty string">>)
    ELSE IF ~dateRegex(dateStr) THEN Err(<<"Date must be in YYYY-MM-DD format">>)
    ELSE LET year == Number(SubSeq(dateStr, 1, 4))
             month == Number(SubSeq(dateStr, 6, 7))
             day == Number(SubSeq(dateStr, 9, 10))
         IN IF month < 1 \/ month > 12 THEN Err(<<"Invalid date">>)
            ELSE IF day < 1 \/ day > daysInMonth(year)[month] THEN Err(<<"Invalid date">>)
            ELSE Ok(DateOf(DateUTC(year, month, day, 0, 0)))

isInDateRange(holiday, fromDate, toDate) ==
    LET holidayStart == newDate(holiday.start)
        holidayEnd == newDate(holiday.end)
    IN DateLE(holidayStart, toDate) /\ DateGE(holidayEnd, fromDate)

filterByDateRange(holidays, from, to) ==
    IF Falsy(from) /\ Falsy(to) THEN Ok(holidays)
    ELSE LET fromDate == IF ~Falsy(from) THEN parseDate(from)
                         ELSE Ok(DateOf(DateUTC(1900, 1, 1, 0, 0)))
             toDate == IF ~Falsy(to) THEN parseDate(to)
                       ELSE Ok(DateOf(DateUTC(2100, 12, 31, 0, 0)))
         IN IF ~fromDate.ok THEN fromDate
            ELSE IF ~toDate.ok THEN toDate
            ELSE IF DateGT(fromDate.val, toDate.val)
            THEN Err(<<"From date must be before or equal to to date">>)
            ELSE Ok(SelectSeq(holidays,
                        LAMBDA holiday : isInDateRange(holiday, fromDate.val, toDate.val)))

\* findHolidaysOnDate with targetDate < end in place of targetDate <= end
findHolidaysOnDate_EndExclusive(holidays, dateStr) ==
    LET targetDate == parseDate(dateStr)
    IN IF ~targetDate.ok THEN targetDate
       ELSE Ok(SelectSeq(holidays, LAMBDA holiday :
                   /\ DateGE(targetDate.val, newDate(holiday.start))
                   /\ DateGT(newDate(holiday.end), targetDate.val)))

findHolidaysOnDate(holidays, dateStr) ==
    LET targetDate == parseDate(dateStr)
    IN IF ~targetDate.ok THEN targetDate
       ELSE Ok(SelectSeq(holidays, LAMBDA holiday :
                   /\ DateGE(targetDate.val, newDate(holiday.start))
                   /\ DateLE(targetDate.val, newDate(holiday.end))))

\* getUpcomingHolidays testing the holiday's end against now, so that a
\* holiday under way counts as upcoming
getUpcomingHolidays_StillRunning(holidays, days, now) ==
    LET futureDate == DateOf(now.t + days * 24 * 60)
    IN SelectSeq(holidays, LAMBDA holiday :
           /\ DateGE(newDate(holiday.end), now)
           /\ DateLE(newDate(holiday.start), futureDate))

\* now is what new Date() returns when the function is entered
getUpcomingHolidays(holidays, days, now) ==
    LET futureDate == DateOf(now.t + days * 24 * 60)
    IN SelectSeq(holidays, LAMBDA holiday :
           LET holidayStart == newDate(holiday.start)
           IN DateGE(holidayStart, now) /\ DateLE(holidayStart, futureDate))

getCurrentHolidays(holidays, now) ==
    SelectSeq(holidays, LAMBDA holiday :
        /\ DateGE(now, newDate(holiday.start))
        /\ DateLE(now, newDate(holiday.end)))

(***************************************************************************)
(* Vocabulary filters, search and field selection.                         *)
(***************************************************************************)
validTypes == << <<"w","i","n","t","e","r","f","e","r","i","e","n">>, <<"o","s","t","e","r","f","e","r","i","e","n">>, <<"p","f","i","n","g","s","t","f","e","r","i","e","n">>, <<"s","o","m","m","e","r","f","e","r","i","e","n">>,
                 <<"h","e","r","b","s","t","f","e","r","i","e","n">>, <<"w","e","i","h","n","a","c","h","t","s","f","e","r","i","e","n">>, <<"f","r","u","e","h","j","a","h","r","s","f","e","r","i","e","n">> >>

validStates == << <<"B","W">>, <<"B","Y">>, <<"B","E">>, <<"B","B">>, <<"H","B">>, <<"H","H">>, <<"H","E">>, <<"M","V">>, <<"N","I">>, <<"N","W">>,
                  <<"R","P">>, <<"S","L">>, <<"S","N">>, <<"S","T">>, <<"S","H">>, <<"T","H">> >>

validFields == << <<"s","t","a","r","t">>, <<"e","n","d">>, <<"y","e","a","r">>, <<"s","t","a","t","e","C","o","d","e">>, <<"n","a","m","e">>, <<"s","l","u","g">> >>

\* Array.prototype.includes
Contains(arr, x) == \E i \in 1..Len(arr) : arr[i] = x

commaSpace == <<",", " ">>

\* filterByTypes reporting the first invalid type only
filterByTypes_FirstInvalidOnly(holidays, typesStr) ==
    IF Falsy(typesStr) THEN Ok(holidays)
    ELSE LET parts == split(typesStr, ",")
             types == [i \in 1..Len(parts) |-> toLowerCase(trim(parts[i]))]
             invalidTypes == SelectSeq(types, LAMBDA type : ~Contains(validTypes, type))
         IN IF Len(invalidTypes) > 0
            THEN Err(<<"Invalid holiday types: ">> \o invalidTypes[1]
                     \o <<". Valid types are: ">> \o join(validTypes, commaSpace))
            ELSE Ok(SelectSeq(holidays,
                        LAMBDA holiday : Contains(types, toLowerCase(holiday.name))))

\* filterByTypes comparing holiday.name as stored, without toLowerCase
filterByTypes_NameCaseSensitive(holidays, typesStr) ==
    IF Falsy(typesStr) THEN Ok(holidays)
    ELSE LET parts == split(typesStr, ",")
             types == [i \in 1..Len(parts) |-> toLowerCase(trim(parts[i]))]
             invalidTypes == SelectSeq(types, LAMBDA type : ~Contains(validTypes, type))
         IN IF Len(invalidTypes) > 0
            THEN Err(<<"Invalid holiday types: ">> \o join(invalidTypes, commaSpace)
                     \o <<". Valid types are: ">> \o join(validTypes, commaSpace))
            ELSE Ok(SelectSeq(holidays, LAMBDA holiday : Contains(types, holiday.name)))

filterByTypes(holidays, typesStr) ==
    IF Falsy(typesStr) THEN Ok(holidays)
    ELSE LET parts == split(typesStr, ",")
             types == [i \in 1..Len(parts) |-> toLowerCase(trim(parts[i]))]
             invalidTypes == SelectSeq(types, LAMBDA type : ~Contains(validTypes, type))
         IN IF Len(invalidTypes) > 0
            THEN Err(<<"Invalid holiday types: ">> \o join(invalidTypes, commaSpace)
                     \o <<". Valid types are: ">> \o join(validTypes, commaSpace))
            ELSE Ok(SelectSeq(holidays,
                        LAMBDA holiday : Contains(types, toLowerCase(holiday.name))))

filterByStates(holidays, statesStr) ==
    IF Falsy(statesStr) THEN Ok(holidays)
    ELSE LET parts == split(statesStr, ",")
             states == [i \in 1..Len(parts) |-> toUpperCase(trim(parts[i]))]
             invalidStates == SelectSeq(states, LAMBDA state : ~Contains(validStates, state))
         IN IF Len(invalidStates) > 0
            THEN Err(<<"Invalid state codes: ">> \o join(invalidStates, commaSpace)
                     \o <<". Valid codes are: ">> \o join(validStates, commaSpace))
            ELSE Ok(SelectSeq(holidays,
                        LAMBDA holiday : Contains(states, holiday.stateCode)))

\* searchHolidays that does not look into the slug
searchHolidays_NoSlug(holidays, query) ==
    IF Falsy(query) \/ ~IsString(query) THEN Ok(holidays)
    ELSE LET searchTerm == trim(toLowerCase(query))
         IN IF searchTerm = << >> THEN Ok(holidays)
            ELSE Ok(SelectSeq(holidays, LAMBDA holiday :
                        \/ includes(toLowerCase(holiday.name), searchTerm)
                        \/ includes(toLowerCase(holiday.stateCode), searchTerm)))

searchHolidays(holidays, query) ==
    IF Falsy(query) \/ ~IsString(query) THEN Ok(holidays)
    ELSE LET searchTerm == trim(toLowerCase(query))
         IN IF searchTerm = << >> THEN Ok(holidays)
            ELSE Ok(SelectSeq(holidays, LAMBDA holiday :
                        \/ includes(toLowerCase(holiday.name), searchTerm)
                        \/ includes(toLowerCase(holiday.slug), searchTerm)
                        \/ includes(toLowerCase(holiday.stateCode), searchTerm)))

\* the property of a record that a field name (a string) denotes
PropertyKey(field) ==
    CASE field = <<"s","t","a","r","t">> -> "start"
      [] field = <<"e","n","d">> -> "end"
      [] field = <<"y","e","a","r">> -> "year"
      [] field = <<"s","t","a","t","e","C","o","d","e">> -> "stateCode"
      [] field = <<"n","a","m","e">> -> "name"
      [] field = <<"s","l","u","g">> -> "slug"
      [] OTHER -> "absent"

hasOwnProperty(holiday, field) == PropertyKey(field) \in DOMAIN holiday

\* an object under construction is the sequence of its <<key, value>> pairs in
\* insertion order; assigning to a key it has keeps the key's position
SetProperty(obj, key, value) ==
    IF \E i \in 1..Len(obj) : obj[i][1] = key
    THEN [i \in 1..Len(obj) |-> IF obj[i][1] = key THEN <<key, value>> ELSE obj[i]]
    ELSE Append(obj, <<key, value>>)

RECURSIVE selectInto(_, _, _)
selectInto(selected, holiday, fields) ==
    IF fields = << >> THEN selected
    ELSE selectInto(IF hasOwnProperty(holiday, Head(fields))
                    THEN SetProperty(selected, Head(fields),
                                     holiday[PropertyKey(Head(fields))])
                    ELSE selected,
                    holiday, Tail(fields))

\* selectFields copying the fields in the order of validFields, not of the request
selectFields_VocabularyOrder(holidays, fieldsStr) ==
    IF Falsy(fieldsStr) THEN Ok(holidays)
    ELSE LET parts == split(fieldsStr, ",")
             fields == [i \in 1..Len(parts) |-> trim(parts[i])]
             invalidFields == SelectSeq(fields, LAMBDA field : ~Contains(validFields, field))
         IN IF Len(invalidFields) > 0
            THEN Err(<<"Invalid fields: ">> \o join(invalidFields, commaSpace)
                     \o <<". Valid fields are: ">> \o join(validFields, commaSpace))
            ELSE Ok([i \in 1..Len(holidays) |->
                        selectInto(<< >>, holidays[i],
                                   SelectSeq(validFields, LAMBDA f : Contains(fields, f)))])

selectFields(holidays, fieldsStr) ==
    IF Falsy(fieldsStr) THEN Ok(holidays)
    ELSE LET parts == split(fieldsStr, ",")
             fields == [i \in 1..Len(parts) |-> trim(parts[i])]
             invalidFields == SelectSeq(fields, LAMBDA field : ~Contains(validFields, field))
         IN IF Len(invalidFields) > 0
            THEN Err(<<"Invalid fields: ">> \o join(invalidFields, commaSpace)
                     \o <<". Valid fields are: ">> \o join(validFields, commaSpace))
            ELSE Ok([i \in 1..Len(holidays) |-> selectInto(<< >>, holidays[i], fields)])

(***************************************************************************)
(* Calls of the date filters on bounded inputs.                            *)
(***************************************************************************)
SampleHolidays == {sommerBY2024, osterBW2024, weihnachtBY2024, winterBY2025}

SeqsOver(S) == UNION {[1..n -> S] : n \in 0..MaxLen}

\* from / to as the query string can carry them: absent, empty, dates, non-dates
RangeArgs ==
    {Undefined, << >>, <<"2","0","2","4","-","0","3","-","2","5">>, <<"2","0","2","4","-","0","4","-","0","6">>, <<"2","0","2","4","-","0","7","-","0","1">>, <<"2","0","2","4","-","0","9","-","0","8">>,
     <<"2","0","2","5","-","0","1","-","0","5">>, <<"1","8","9","9","-","1","2","-","3","1">>, <<"1","9","0","0","-","0","1","-","0","1">>, <<"2","1","0","0","-","1","2","-","3","1">>, <<"2","1","0","1","-","0","1","-","0","1">>,
     <<"2","0","2","4","-","0","2","-","3","0">>, <<"2","0","2","4","/","0","7","/","2","5">>}

DateArgs ==
    {y \o <<"-">> \o m \o <<"-">> \o d :
        y \in {<<"1","9","0","0">>, <<"2","0","0","0">>, <<"2","0","2","3">>, <<"2","0","2","4">>},
        m \in {<<"0","0">>, <<"0","1">>, <<"0","2">>, <<"0","4">>, <<"1","2">>, <<"1","3">>},
        d \in {<<"0","0">>, <<"0","1">>, <<"2","8">>, <<"2","9">>, <<"3","0">>, <<"3","1">>, <<"3","2">>}}
    \cup {Undefined, Null, AnArray, << >>, <<"2","0","2","4","-","0","7","-","2","5">>, <<"2","0","2","4","-","0","9","-","0","8">>, <<"2","0","2","4","-","0","8","-","1","5">>, <<"2","0","2","5","-","0","1","-","0","5">>,
          <<"2","0","2","4","/","0","7","/","2","5">>, <<"2","4","-","0","7","-","2","5">>, <<"2","0","2","4","-","7","-","2","5">>, <<"2","0","2","4","-","0","7","-","2","5"," ">>, <<"2","0","2","4","-","0","7","-","2","a">>,
          <<"2","0","2","4","-","0","7","-","2","5","T","0","0",":","0","0","Z">>, <<"i","n","v","a","l","i","d">>}

EmptyStore ==
    /\ files = EmptyMap
    /\ availableYears = << >>
    /\ cache = EmptyMap
    /\ reads = EmptyMap

\* a library function is entered with its arguments and returns once
Return(result) ==
    /\ pc = "call"
    /\ pc' = "done"
    /\ ret' = result
    /\ UNCHANGED <<files, availableYears, cache, reads, call>>

InitDates ==
    /\ EmptyStore
    /\ pc = "call"
    /\ ret = NoRet
    /\ \E holidays \in SeqsOver(SampleHolidays) :
         \/ \E from \in RangeArgs, to \in RangeArgs :
              call = [fn |-> "filterByDateRange", holidays |-> holidays,
                      from |-> from, to |-> to]
         \/ \E dateStr \in DateArgs :
              call = [fn |-> "findHolidaysOnDate", holidays |-> holidays,
                      dateStr |-> dateStr]

FilterByDateRange ==
    /\ call.fn = "filterByDateRange"
    /\ Return(filterByDateRange(call.holidays, call.from, call.to))

FindHolidaysOnDate ==
    /\ call.fn = "findHolidaysOnDate"
    /\ Return(findHolidaysOnDate(call.holidays, call.dateStr))

NextDates == FilterByDateRange \/ FindHolidaysOnDate

SpecDates == InitDates /\ [][NextDates]_vars

\* the claims' notion of a date string: strict YYYY-MM-DD naming a real day
IsRealCalendarDate(s) ==
    /\ IsString(s)
    /\ Len(s) = 10
    /\ \A i \in {1, 2, 3, 4, 6, 7, 9, 10} : IsDigit(s[i])
    /\ s[5] = "-" /\ s[8] = "-"
    /\ LET y == Number(SubSeq(s, 1, 4))
           m == Number(SubSeq(s, 6, 7))
           d == Number(SubSeq(s, 9, 10))
           leap == (y % 4 = 0 /\ y % 100 # 0) \/ y % 400 = 0
       IN /\ m \in 1..12
          /\ d >= 1
          /\ d <= CASE m \in {1, 3, 5, 7, 8, 10, 12} -> 31
                    [] m \in {4, 6, 9, 11} -> 30
                    [] OTHER -> IF leap THEN 29 ELSE 28

\* 00:00 UTC of the named day
Midnight(s) ==
    DateUTC(Number(SubSeq(s, 1, 4)), Number(SubSeq(s, 6, 7)), Number(SubSeq(s, 9, 10)), 0, 0)

StartOf(h) == newDate(h.start).t
EndOf(h) == newDate(h.end).t

(***************************************************************************)
(* C2: for valid bounds with from <= to, filterByDateRange keeps exactly   *)
(* the records with start <= to and end >= from; an absent bound imposes   *)
(* no restriction, and with both absent the input is returned unchanged.   *)
(***************************************************************************)
C2_DateRangeOverlap ==
    (/\ pc = "done"
     /\ call.fn = "filterByDateRange"
     /\ Falsy(call.from) \/ IsRealCalendarDate(call.from)
     /\ Falsy(call.to) \/ IsRealCalendarDate(call.to)
     /\ (~Falsy(call.from) /\ ~Falsy(call.to)) => Midnight(call.from) <= Midnight(call.to))
    => /\ ret.ok
       /\ ret.val = SelectSeq(call.holidays, LAMBDA h :
                        /\ Falsy(call.to) \/ StartOf(h) <= Midnight(call.to)
                        /\ Falsy(call.from) \/ EndOf(h) >= Midnight(call.from))

(***************************************************************************)
(* C3: filterByDateRange and findHolidaysOnDate raise an error exactly     *)
(* when a supplied date string is not a real calendar date in strict       *)
(* YYYY-MM-DD form, or when both bounds are valid and from > to.           *)
(***************************************************************************)
C3_DateErrorsExactly ==
    /\ (pc = "done" /\ call.fn = "filterByDateRange") =>
         (~ret.ok <=>
            \/ ~Falsy(call.from) /\ ~IsRealCalendarDate(call.from)
            \/ ~Falsy(call.to) /\ ~IsRealCalendarDate(call.to)
            \/ /\ IsRealCalendarDate(call.from)
               /\ IsRealCalendarDate(call.to)
               /\ Midnight(call.from) > Midnight(call.to))
    /\ (pc = "done" /\ call.fn = "findHolidaysOnDate") =>
         (~ret.ok <=> ~IsRealCalendarDate(call.dateStr))

(***************************************************************************)
(* C9: for a valid date, findHolidaysOnDate keeps exactly the records with *)
(* start <= date <= end, both ends inclusive, the date taken as 00:00 UTC. *)
(***************************************************************************)
C9_OnDateInclusive ==
    (pc = "done" /\ call.fn = "findHolidaysOnDate" /\ IsRealCalendarDate(call.dateStr))
    => /\ ret.ok
       /\ ret.val = SelectSeq(call.holidays, LAMBDA h :
                        /\ StartOf(h) <= Midnight(call.dateStr)
                        /\ Midnight(call.dateStr) <= EndOf(h))

\* a query for a holiday's exact end day returns that holiday
C9_Witness ==
    /\ pc = "done"
    /\ call.fn = "findHolidaysOnDate"
    /\ call.dateStr = <<"2","0","2","4","-","0","9","-","0","8">>
    /\ call.holidays = <<osterBW2024, sommerBY2024>>
    /\ ret.ok
    /\ ret.val = <<sommerBY2024>>

(***************************************************************************)
(* Calls of the vocabulary filters, the search and the field selection.    *)
(* A comma-separated parameter is built from its list of raw entries,      *)
(* which the call record keeps beside it.                                  *)
(***************************************************************************)
mixedCaseBY2024 ==
    [start |-> <<"2","0","2","4","-","0","5","-","2","1","T","0","0",":","0","0","Z">>, end |-> <<"2","0","2","4","-","0","6","-","0","1","T","0","0",":","0","0","Z">>, year |-> 2024,
     stateCode |-> <<"b","y">>, name |-> <<"P","f","i","n","g","s","t","f","e","r","i","e","n">>, slug |-> <<"P","f","i","n","g","s","t","f","e","r","i","e","n","-","2","0","2","4","-","b","y">>]

VocabHolidays == {sommerBY2024, osterBW2024, winterBY2025, mixedCaseBY2024}

EntryLists(S) == UNION {[1..n -> S] : n \in 0..MaxEntries}

\* the parameter a list of entries makes: absent for no entry at all
Csv(entries) == IF entries = << >> THEN Undefined ELSE join(entries, <<",">>)

TypeEntries == { <<"s","o","m","m","e","r","f","e","r","i","e","n">>, <<" ","P","f","i","n","g","s","t","f","e","r","i","e","n"," ">>, <<"O","S","T","E","R","F","E","R","I","E","N">>, <<"i","n","v","a","l","i","d","f","e","r","i","e","n">>, << >> }
StateEntries == { <<"B","Y">>, <<" ","b","y"," ">>, <<"B","w">>, <<"X","X">>, << >> }
FieldEntries == { <<"n","a","m","e">>, <<" ","s","t","a","t","e","C","o","d","e"," ">>, <<"y","e","a","r">>, <<"s","t","a","r","t">>, <<"N","a","m","e">>, <<"i","n","v","a","l","i","d","F","i","e","l","d">> }
Queries == { Undefined, Null, AnArray, << >>, <<" "," ">>, <<"s","o","m","m","e","r">>, <<"S","O","M","M","E","R">>, <<" ","b","y"," ">>,
             <<"2","0","2","4","-","B","Y">>, <<"2","0","2","5">>, <<"f","e","r","i","e","n","-","2","0","2","4">>, <<"x","y","z">> }

InitVocab ==
    /\ EmptyStore
    /\ pc = "call"
    /\ ret = NoRet
    /\ \E holidays \in SeqsOver(VocabHolidays) :
         \/ \E entries \in EntryLists(TypeEntries) :
              call = [fn |-> "filterByTypes", holidays |-> holidays,
                      entries |-> entries, param |-> Csv(entries)]
         \/ \E entries \in EntryLists(StateEntries) :
              call = [fn |-> "filterByStates", holidays |-> holidays,
                      entries |-> entries, param |-> Csv(entries)]
         \/ \E entries \in EntryLists(FieldEntries) :
              call = [fn |-> "selectFields", holidays |-> holidays,
                      entries |-> entries, param |-> Csv(entries)]
         \/ \E query \in Queries :
              call = [fn |-> "searchHolidays", holidays |-> holidays,
                      entries |-> << >>, param |-> query]

FilterByTypes ==
    /\ call.fn = "filterByTypes"
    /\ Return(filterByTypes(call.holidays, call.param))

FilterByStates ==
    /\ call.fn = "filterByStates"
    /\ Return(filterByStates(call.holidays, call.param))

SelectFields ==
    /\ call.fn = "selectFields"
    /\ Return(selectFields(call.holidays, call.param))

SearchHolidays ==
    /\ call.fn = "searchHolidays"
    /\ Return(searchHolidays(call.holidays, call.param))

NextVocab == FilterByTypes \/ FilterByStates \/ SelectFields \/ SearchHolidays

SpecVocab == InitVocab /\ [][NextVocab]_vars

\* the entries of the call as the function compares them
Normalised(fn, entries) ==
    [i \in 1..Len(entries) |->
        CASE fn = "filterByTypes" -> toLowerCase(trim(entries[i]))
          [] fn = "filterByStates" -> toUpperCase(trim(entries[i]))
          [] OTHER -> trim(entries[i])]

Vocabulary(fn) ==
    CASE fn = "filterByTypes" -> validTypes
      [] fn = "filterByStates" -> validStates
      [] OTHER -> validFields

Offenders(fn, entries) ==
    SelectSeq(Normalised(fn, entries), LAMBDA e : ~Contains(Vocabulary(fn), e))

ErrorText(fn) ==
    CASE fn = "filterByTypes" -> <<"Invalid holiday types: ", ". Valid types are: ">>
      [] fn = "filterByStates" -> <<"Invalid state codes: ", ". Valid codes are: ">>
      [] OTHER -> <<"Invalid fields: ", ". Valid fields are: ">>

VocabCall == call.fn \in {"filterByTypes", "filterByStates", "selectFields"}

(***************************************************************************)
(* C4: filterByTypes, filterByStates and selectFields raise their error    *)
(* exactly when the (non-empty) parameter has an entry that, once          *)
(* normalised, is outside the vocabulary, and the message lists every      *)
(* offending entry in order, empty entries included.                       *)
(***************************************************************************)
C4_VocabularyClosure ==
    (pc = "done" /\ VocabCall /\ ~Falsy(call.param))
    => LET offenders == Offenders(call.fn, call.entries)
       IN IF offenders = << >> THEN ret.ok
          ELSE /\ ~ret.ok
               /\ ret.msg = <<ErrorText(call.fn)[1]>> \o join(offenders, <<",", " ">>)
                            \o <<ErrorText(call.fn)[2]>>
                            \o join(Vocabulary(call.fn), <<",", " ">>)

\* two offending entries, one of them empty, are both reported
C4_Witness ==
    /\ pc = "done"
    /\ call.fn = "filterByTypes"
    /\ call.entries = << <<"i","n","v","a","l","i","d","f","e","r","i","e","n">>, << >> >>
    /\ ~ret.ok
    /\ ret.msg[2] = "i"
    /\ Len(Offenders(call.fn, call.entries)) = 2

(***************************************************************************)
(* C5: for a valid type list, filterByTypes keeps, in input order, exactly *)
(* the records whose name equals a listed type, letter case and white      *)
(* space around the entries ignored.                                       *)
(***************************************************************************)
C5_TypesFilter ==
    (/\ pc = "done"
     /\ call.fn = "filterByTypes"
     /\ ~Falsy(call.param)
     /\ Offenders(call.fn, call.entries) = << >>)
    => /\ ret.ok
       /\ ret.val = SelectSeq(call.holidays, LAMBDA h :
                        \E i \in 1..Len(call.entries) :
                            toLowerCase(h.name) = toLowerCase(trim(call.entries[i])))

\* a record named in mixed case is kept for an entry in another case
C5_Witness ==
    /\ pc = "done"
    /\ call.fn = "filterByTypes"
    /\ call.entries = << <<" ","P","f","i","n","g","s","t","f","e","r","i","e","n"," ">>, <<"O","S","T","E","R","F","E","R","I","E","N">> >>
    /\ call.holidays = <<mixedCaseBY2024, sommerBY2024>>
    /\ ret.ok
    /\ ret.val = <<mixedCaseBY2024>>

(***************************************************************************)
(* C6: for a valid state list, filterByStates keeps exactly the records    *)
(* whose stateCode is one of the listed codes, letter case ignored on the  *)
(* list entries and on the record's stateCode.                             *)
(***************************************************************************)
C6_StatesFilter ==
    (/\ pc = "done"
     /\ call.fn = "filterByStates"
     /\ ~Falsy(call.param)
     /\ Offenders(call.fn, call.entries) = << >>)
    => /\ ret.ok
       /\ ret.val = SelectSeq(call.holidays, LAMBDA h :
                        \E i \in 1..Len(call.entries) :
                            toUpperCase(h.stateCode) = toUpperCase(trim(call.entries[i])))

\* the requested fields, each once, in the order of their first request
RECURSIVE FirstOccurrences(_, _)
FirstOccurrences(seen, fields) ==
    IF fields = << >> THEN seen
    ELSE FirstOccurrences(IF Contains(seen, Head(fields)) THEN seen
                          ELSE Append(seen, Head(fields)),
                          Tail(fields))

(***************************************************************************)
(* C7: for a valid non-empty field list, selectFields returns one object   *)
(* per input record, in input order, whose keys are exactly the requested  *)
(* fields in the order given and whose values are the record's values.     *)
(***************************************************************************)
C7_FieldProjection ==
    (/\ pc = "done"
     /\ call.fn = "selectFields"
     /\ ~Falsy(call.param)
     /\ Offenders(call.fn, call.entries) = << >>)
    => LET wanted == FirstOccurrences(<< >>, Normalised(call.fn, call.entries))
       IN /\ ret.ok
          /\ Len(ret.val) = Len(call.holidays)
          /\ \A i \in 1..Len(call.holidays) :
                /\ Len(ret.val[i]) = Len(wanted)
                /\ \A k \in 1..Len(wanted) :
                      /\ ret.val[i][k][1] = wanted[k]
                      /\ ret.val[i][k][2] = call.holidays[i][PropertyKey(wanted[k])]

\* "start, name" of two records: start comes first and keeps its wire form
C7_Witness ==
    /\ pc = "done"
    /\ call.fn = "selectFields"
    /\ call.entries = << <<"s","t","a","r","t">>, <<"n","a","m","e">> >>
    /\ call.holidays = <<osterBW2024, sommerBY2024>>
    /\ ret.ok
    /\ ret.val[2] = << << <<"s","t","a","r","t">>, <<"2","0","2","4","-","0","7","-","2","5","T","0","0",":","0","0","Z">> >>, << <<"n","a","m","e">>, <<"s","o","m","m","e","r","f","e","r","i","e","n">> >> >>

(***************************************************************************)
(* C8: searchHolidays keeps exactly the records whose name, slug or        *)
(* stateCode contains the trimmed query, letter case ignored; an absent,   *)
(* empty or white-space-only query returns the input; it never raises.     *)
(***************************************************************************)
C8_Search ==
    (pc = "done" /\ call.fn = "searchHolidays")
    => /\ ret.ok
       /\ IF ~IsString(call.param) \/ trim(call.param) = << >>
          THEN ret.val = call.holidays
          ELSE ret.val = SelectSeq(call.holidays, LAMBDA h :
                   \E field \in {h.name, h.slug, h.stateCode} :
                       includes(toLowerCase(field), toLowerCase(trim(call.param))))

\* a query that only the slug contains
C8_Witness ==
    /\ pc = "done"
    /\ call.fn = "searchHolidays"
    /\ call.param = <<"f","e","r","i","e","n","-","2","0","2","4">>
    /\ call.holidays = <<winterBY2025, sommerBY2024>>
    /\ ret.ok
    /\ ret.val = <<sommerBY2024>>

(***************************************************************************)
(* Calls of the look-ahead and currently-active windows.  The instant that *)
(* new Date() yields inside the function is drawn with the arguments.      *)
(***************************************************************************)
sommerStart == DateUTC(2024, 7, 25, 0, 0)

Nows == {sommerStart - MinutesPerDay - 1, sommerStart - MinutesPerDay, sommerStart - 1,
         sommerStart, sommerStart + 1, DateUTC(2024, 1, 1, 12, 30)}

DayCounts == {0, 1, 2, 365}

InitUpcoming ==
    /\ EmptyStore
    /\ pc = "call"
    /\ ret = NoRet
    /\ \E holidays \in SeqsOver(SampleHolidays), now \in Nows :
         \/ \E days \in DayCounts :
              call = [fn |-> "getUpcomingHolidays", holidays |-> holidays,
                      days |-> days, now |-> now]
         \/ call = [fn |-> "getCurrentHolidays", holidays |-> holidays,
                    days |-> 0, now |-> now]

GetUpcomingHolidays ==
    /\ call.fn = "getUpcomingHolidays"
    /\ Return(Ok(getUpcomingHolidays(call.holidays, call.days, DateOf(call.now))))

GetCurrentHolidays ==
    /\ call.fn = "getCurrentHolidays"
    /\ Return(Ok(getCurrentHolidays(call.holidays, DateOf(call.now))))

NextUpcoming == GetUpcomingHolidays \/ GetCurrentHolidays

SpecUpcoming == InitUpcoming /\ [][NextUpcoming]_vars

(***************************************************************************)
(* C10: getUpcomingHolidays keeps exactly the records with                 *)
(* now <= start <= now + days * 24h; a holiday that started before now is  *)
(* excluded even when it is still running.                                 *)
(***************************************************************************)
C10_UpcomingWindow ==
    (pc = "done" /\ call.fn = "getUpcomingHolidays")
    => /\ ret.ok
       /\ ret.val = SelectSeq(call.holidays, LAMBDA h :
                        /\ call.now <= StartOf(h)
                        /\ StartOf(h) <= call.now + call.days * 24 * 60)

\* one minute into the summer holidays: they are running and left out, the
\* christmas holidays of the same year are kept
C10_Witness ==
    /\ pc = "done"
    /\ call.fn = "getUpcomingHolidays"
    /\ call.now = sommerStart + 1
    /\ call.days = 365
    /\ call.holidays = <<sommerBY2024, weihnachtBY2024>>
    /\ call.now <= EndOf(sommerBY2024)
    /\ ret.val = <<weihnachtBY2024>>

(***************************************************************************)
(* The V2 routes (routes/v2/index.js).  A response is its status and its   *)
(* JSON body; a handler returns it with the loader's cache and read counts  *)
(* as the request left them.                                                *)
(***************************************************************************)
\* parseInt here reads decimal digits only: a year or day count written
\* with a 0x prefix is outside the requests drawn below
validateYear(year) ==
    LET yearNum == parseInt(year)
    IN IF yearNum.nan \/ yearNum.n < 1900 \/ yearNum.n > 2100
       THEN Err(<<"Year must be a valid number between 1900 and 2100">>)
       ELSE Ok(yearNum.n)

Json(status, body) == [status |-> status, body |-> body]

\* res.status(status).json({ error: { message } })
ErrorJson(status, message) == Json(status, [error |-> [message |-> message]])

Responded(st, res) == [cache |-> st.cache, reads |-> st.reads, res |-> res]

NoneFound == <<"No holidays found matching the specified criteria">>

\* the shared tail of GET /:year and GET /:year/:state: the optional filters
\* in sequence, the field selection last, 404 for an empty list, and the
\* catch block answering 400 to whatever was thrown
filtered(holidays, query) ==
    LET ranged == IF holidays.ok /\ (~Falsy(query.from) \/ ~Falsy(query.to))
                  THEN filterByDateRange(holidays.val, query.from, query.to)
                  ELSE holidays
        typed == IF ranged.ok /\ ~Falsy(query.type)
                 THEN filterByTypes(ranged.val, query.type) ELSE ranged
        stated == IF typed.ok /\ ~Falsy(query.states)
                  THEN filterByStates(typed.val, query.states) ELSE typed
    IN IF stated.ok /\ ~Falsy(query.fields)
       THEN selectFields(stated.val, query.fields) ELSE stated

listOr404(holidays) ==
    IF ~holidays.ok THEN ErrorJson(400, holidays.msg)
    ELSE IF Len(holidays.val) = 0 THEN ErrorJson(404, NoneFound)
    ELSE Json(200, holidays.val)

\* GET /:year
getYear(st, params, query) ==
    LET year == validateYear(params.year)
    IN IF ~year.ok THEN Responded(st, ErrorJson(400, year.msg))
       ELSE LET loaded == loadYearData(st, Num(year.val))
            IN Responded(loaded, listOr404(filtered(loaded.ret, query)))

\* GET /:year/:state: req.query.states is not read by this handler
getYearState(st, params, query) ==
    LET year == validateYear(params.year)
    IN IF ~year.ok THEN Responded(st, ErrorJson(400, year.msg))
       ELSE LET loaded == loadYearData(st, Num(year.val))
                ofState == IF ~loaded.ret.ok THEN loaded.ret
                           ELSE Ok(SelectSeq(loaded.ret.val, LAMBDA holiday :
                                       /\ holiday.stateCode = toUpperCase(params.state)
                                       /\ holiday.year = year.val))
            IN Responded(loaded,
                         listOr404(filtered(ofState, [query EXCEPT !.states = Undefined])))


\* holiday[key] for an element of a handler's list: a record as loaded or,
\* once fields were selected, the object selectFields built
property(projected, holiday, key) ==
    IF ~projected THEN holiday[PropertyKey(key)]
    ELSE IF \E i \in 1..Len(holiday) : holiday[i][1] = key
    THEN holiday[CHOOSE i \in 1..Len(holiday) : holiday[i][1] = key][2]
    ELSE Undefined

NaN == [nan |-> TRUE, n |-> 0]

\* new Date(a.start) - new Date(b.start); new Date(undefined) is an invalid date
compareStart(projected, a, b) ==
    LET startOf(h) == LET s == property(projected, h, <<"s","t","a","r","t">>)
                      IN IF s = Undefined THEN InvalidDate ELSE newDate(s)
    IN IF startOf(a).nan \/ startOf(b).nan THEN NaN
       ELSE [nan |-> FALSE, n |-> startOf(a).t - startOf(b).t]

\* the comparator of GET /search; undefined - undefined does not arise, as
\* undefined !== undefined is false
compareYearStart(projected, a, b) ==
    LET yearA == property(projected, a, <<"y","e","a","r">>)
        yearB == property(projected, b, <<"y","e","a","r">>)
    IN IF yearA # yearB THEN [nan |-> FALSE, n |-> yearA - yearB]
       ELSE compareStart(projected, a, b)

compare(byYear, projected, a, b) ==
    IF byYear THEN compareYearStart(projected, a, b) ELSE compareStart(projected, a, b)

\* Array.prototype.sort(comparator) is stable and takes a comparator result
\* of NaN as 0: an element moves in front of those that compare greater
RECURSIVE insertBy(_, _, _, _)
insertBy(byYear, projected, sorted, x) ==
    IF sorted = << >> THEN <<x>>
    ELSE LET c == compare(byYear, projected, Head(sorted), x)
         IN IF ~c.nan /\ c.n > 0 THEN <<x>> \o sorted
            ELSE <<Head(sorted)>> \o insertBy(byYear, projected, Tail(sorted), x)

RECURSIVE sort(_, _, _)
sort(byYear, projected, arr) ==
    IF arr = << >> THEN << >>
    ELSE insertBy(byYear, projected,
                  sort(byYear, projected, SubSeq(arr, 1, Len(arr) - 1)), arr[Len(arr)])

\* Which array object a list of a handler is: an array of the cache, named
\* by its key, or an array the request made itself.
OwnArray == <<"own">>

\* getAllData returning the cached array of the first available year with
\* the other years' records pushed onto it
arrayOfAllData_FirstYear(st) ==
    IF Len(availableYears) > 0 /\ NumberToString(availableYears[1]) \in DOMAIN st.cache
    THEN NumberToString(availableYears[1]) ELSE OwnArray

\* getAllData collects into const allData = []
arrayOfAllData(st) == OwnArray

\* searchHolidays returns the array it was given for an empty search term
\* and the array of filter() otherwise
arrayOfSearch(array, query) ==
    IF Falsy(query) \/ ~IsString(query) \/ trim(toLowerCase(query)) = << >>
    THEN array ELSE OwnArray

\* array.sort(...) orders the array in place: an array of the cache is
\* afterwards the cache's entry in the new order
sortedInPlace(st, array, sorted) ==
    IF array = OwnArray THEN [cache |-> st.cache, reads |-> st.reads]
    ELSE [cache |-> (array :> sorted) @@ st.cache, reads |-> st.reads]

\* the states filter and the field selection shared by /current, /next,
\* /date and /search
statesAndFields(holidays, query) ==
    LET stated == IF holidays.ok /\ ~Falsy(query.states)
                  THEN filterByStates(holidays.val, query.states) ELSE holidays
    IN IF stated.ok /\ ~Falsy(query.fields)
       THEN selectFields(stated.val, query.fields) ELSE stated

\* GET /current
getCurrent(st, query, now) ==
    LET allHolidays == getAllData(st)
        currentHolidays == statesAndFields(
            Ok(getCurrentHolidays(allHolidays.ret.val, now)), query)
    IN Responded(allHolidays,
                 IF ~currentHolidays.ok THEN ErrorJson(400, currentHolidays.msg)
                 ELSE Json(200, currentHolidays.val))

\* GET /next/:days
getNext(st, params, query, now) ==
    LET days == parseInt(params.days)
    IN IF days.nan \/ days.n < 1 \/ days.n > 365
       THEN Responded(st, ErrorJson(400, <<"Days must be a number between 1 and 365">>))
       ELSE LET allHolidays == getAllData(st)
                upcomingHolidays == statesAndFields(
                    Ok(getUpcomingHolidays(allHolidays.ret.val, days.n, now)), query)
            IN IF ~upcomingHolidays.ok
               THEN Responded(allHolidays, ErrorJson(400, upcomingHolidays.msg))
               ELSE LET sorted == sort(FALSE, ~Falsy(query.fields),
                                       upcomingHolidays.val)
                    IN \* getUpcomingHolidays returns the array of filter()
                       Responded(sortedInPlace(allHolidays, OwnArray, sorted),
                                 Json(200, sorted))

\* GET /date/:date
getDate(st, params, query) ==
    LET allHolidays == getAllData(st)
        holidaysOnDate == statesAndFields(
            findHolidaysOnDate(allHolidays.ret.val, params.date), query)
    IN Responded(allHolidays,
                 IF ~holidaysOnDate.ok THEN ErrorJson(400, holidaysOnDate.msg)
                 ELSE Json(200, [date |-> params.date,
                                 isHoliday |-> Len(holidaysOnDate.val) > 0,
                                 holidays |-> holidaysOnDate.val]))

\* GET /search
getSearch(st, query) ==
    IF Falsy(query.q)
    THEN Responded(st, ErrorJson(400, <<"Query parameter \"q\" is required">>))
    ELSE LET allHolidays == getAllData(st)
             found == searchHolidays(allHolidays.ret.val, query.q)
             yearNum == validateYear(query.year)
             ofYear == IF Falsy(query.year) THEN found
                       ELSE IF ~yearNum.ok THEN yearNum
                       ELSE Ok(SelectSeq(found.val, LAMBDA holiday :
                                   holiday.year = yearNum.val))
             holidays == statesAndFields(ofYear, query)
             \* the array that holidays names when it is sorted: filter() and
             \* selectFields make new arrays
             array == IF Falsy(query.year) /\ Falsy(query.states) /\ Falsy(query.fields)
                      THEN arrayOfSearch(arrayOfAllData(st), query.q) ELSE OwnArray
         IN IF ~holidays.ok THEN Responded(allHolidays, ErrorJson(400, holidays.msg))
            ELSE LET sorted == sort(TRUE, ~Falsy(query.fields), holidays.val)
                 IN Responded(sortedInPlace(allHolidays, array, sorted),
                              Json(200, [query |-> query.q,
                                         results |-> Len(sorted),
                                         holidays |-> sorted]))


\* Math.ceil(a / b) for b > 0
ceilDiv(a, b) == -((-a) \div b)

\* Math.round(a / b * 100) / 100 in hundredths, in exact arithmetic (halves
\* go up); 0 / 0 is NaN and Math.round keeps it
roundedHundredths(a, b) ==
    IF b = 0 THEN NaN ELSE [nan |-> FALSE, n |-> (200 * a + b) \div (2 * b)]

\* Math.ceil((end - start) / (24 * 60 * 60 * 1000)) + 1, for the well-formed
\* dates the records carry
duration(holiday) ==
    ceilDiv(newDate(holiday.end).t - newDate(holiday.start).t, MinutesPerDay) + 1

\* one pass of the forEach of GET /stats/:year that counts every record as
\* the first of its state and of its type
countRecord_Overwriting(acc, holiday) ==
    LET d == duration(holiday)
        withDuration == ("duration" :> d) @@ holiday
    IN [byState |-> (holiday.stateCode :> 1) @@ acc.byState,
        byType |-> (holiday.name :> 1) @@ acc.byType,
        totalDays |-> acc.totalDays + d,
        maxDays |-> IF d > acc.maxDays THEN d ELSE acc.maxDays,
        longestHoliday |-> IF d > acc.maxDays THEN withDuration ELSE acc.longestHoliday,
        minDays |-> IF acc.shortestHoliday = Null \/ d < acc.minDays
                    THEN d ELSE acc.minDays,
        shortestHoliday |-> IF acc.shortestHoliday = Null \/ d < acc.minDays
                            THEN withDuration ELSE acc.shortestHoliday]

\* one pass of the forEach of GET /stats/:year with >= and <= in place of > and
\* <: of the records that tie the last one is kept
countRecord_LastOfTies(acc, holiday) ==
    LET d == duration(holiday)
        withDuration == ("duration" :> d) @@ holiday
    IN [byState |-> (holiday.stateCode :> (Count(acc.byState, holiday.stateCode) + 1))
                      @@ acc.byState,
        byType |-> (holiday.name :> (Count(acc.byType, holiday.name) + 1))
                      @@ acc.byType,
        totalDays |-> acc.totalDays + d,
        maxDays |-> IF d >= acc.maxDays THEN d ELSE acc.maxDays,
        longestHoliday |-> IF d >= acc.maxDays THEN withDuration ELSE acc.longestHoliday,
        minDays |-> IF acc.shortestHoliday = Null \/ d <= acc.minDays
                    THEN d ELSE acc.minDays,
        shortestHoliday |-> IF acc.shortestHoliday = Null \/ d <= acc.minDays
                            THEN withDuration ELSE acc.shortestHoliday]

\* one pass of the forEach of GET /stats/:year; minDays starts at Infinity,
\* which is when shortestHoliday is still null
countRecord(acc, holiday) ==
    LET d == duration(holiday)
        withDuration == ("duration" :> d) @@ holiday
    IN [byState |-> (holiday.stateCode :> (Count(acc.byState, holiday.stateCode) + 1))
                      @@ acc.byState,
        byType |-> (holiday.name :> (Count(acc.byType, holiday.name) + 1))
                      @@ acc.byType,
        totalDays |-> acc.totalDays + d,
        maxDays |-> IF d > acc.maxDays THEN d ELSE acc.maxDays,
        longestHoliday |-> IF d > acc.maxDays THEN withDuration ELSE acc.longestHoliday,
        minDays |-> IF acc.shortestHoliday = Null \/ d < acc.minDays
                    THEN d ELSE acc.minDays,
        shortestHoliday |-> IF acc.shortestHoliday = Null \/ d < acc.minDays
                            THEN withDuration ELSE acc.shortestHoliday]

RECURSIVE statsOver(_, _)
statsOver(acc, holidays) ==
    IF holidays = << >> THEN acc
    ELSE statsOver(countRecord(acc, Head(holidays)), Tail(holidays))

\* JSON.stringify writes NaN as null; the number the handler rounded to two
\* decimals is given in hundredths
toJSON(number) == [null |-> number.nan, hundredths |-> number.n]

\* GET /stats/:year
getStats(st, params) ==
    LET year == validateYear(params.year)
    IN IF ~year.ok THEN Responded(st, ErrorJson(400, year.msg))
       ELSE LET loaded == loadYearData(st, Num(year.val))
            IN IF ~loaded.ret.ok THEN Responded(loaded, ErrorJson(400, loaded.ret.msg))
               ELSE LET holidays == loaded.ret.val
                        stats == statsOver([byState |-> EmptyMap, byType |-> EmptyMap,
                                            totalDays |-> 0, maxDays |-> 0, minDays |-> 0,
                                            longestHoliday |-> Null,
                                            shortestHoliday |-> Null], holidays)
                    IN Responded(loaded, Json(200,
                         [year |-> year.val,
                          totalHolidays |-> Len(holidays),
                          byState |-> stats.byState,
                          byType |-> stats.byType,
                          averageDuration |->
                              toJSON(roundedHundredths(stats.totalDays, Len(holidays))),
                          longestHoliday |-> stats.longestHoliday,
                          shortestHoliday |-> stats.shortestHoliday]))

\* holidays.filter(h => h[key] === value).length
countOf(holidays, key, value) ==
    Len(SelectSeq(holidays, LAMBDA h : h[key] = value))

\* the entry with the difference taken the other way round
comparisonEntry_FromBToA(yearA, yearB, countA, countB) ==
    (<<"d","i","f","f","e","r","e","n","c","e">> :> (countA - countB))
        @@ (NumberToString(yearB) :> countB)
        @@ (NumberToString(yearA) :> countA)

\* { [yearA]: countA, [yearB]: countB, difference: countB - countA }: a
\* later property of the same name replaces the earlier one
comparisonEntry(yearA, yearB, countA, countB) ==
    (<<"d","i","f","f","e","r","e","n","c","e">> :> (countB - countA))
        @@ (NumberToString(yearB) :> countB)
        @@ (NumberToString(yearA) :> countA)

compareBy(key, yearA, yearB, holidaysA, holidaysB) ==
    LET both == holidaysA \o holidaysB
        all == {both[i][key] : i \in 1..Len(both)}
    IN [value \in all |->
          comparisonEntry(yearA, yearB, countOf(holidaysA, key, value),
                          countOf(holidaysB, key, value))]

\* GET /compare/:yearA/:yearB
getCompare(st, params) ==
    LET yearA == validateYear(params.yearA)
        yearB == validateYear(params.yearB)
    IN IF ~yearA.ok THEN Responded(st, ErrorJson(400, yearA.msg))
       ELSE IF ~yearB.ok THEN Responded(st, ErrorJson(400, yearB.msg))
       ELSE LET loadedA == loadYearData(st, Num(yearA.val))
                loadedB == loadYearData(loadedA, Num(yearB.val))
            IN IF ~loadedA.ret.ok
               THEN Responded(loadedA, ErrorJson(400, loadedA.ret.msg))
               ELSE IF ~loadedB.ret.ok
               THEN Responded(loadedB, ErrorJson(400, loadedB.ret.msg))
               ELSE LET holidaysA == loadedA.ret.val
                        holidaysB == loadedB.ret.val
                    IN Responded(loadedB, Json(200,
                         [yearA |-> yearA.val,
                          yearB |-> yearB.val,
                          totalHolidaysA |-> Len(holidaysA),
                          totalHolidaysB |-> Len(holidaysB),
                          difference |-> Len(holidaysB) - Len(holidaysA),
                          byState |-> compareBy("stateCode", yearA.val, yearB.val,
                                                holidaysA, holidaysB),
                          byType |-> compareBy("name", yearA.val, yearB.val,
                                               holidaysA, holidaysB)]))


(***************************************************************************)
(* The V1 routes (routes/v1/index.js).  They read the year's file          *)
(* themselves, not through the loader.  A file is named by its name when   *)
(* it lies directly in the years directory and by its path from the        *)
(* application's source directory otherwise.                               *)
(***************************************************************************)
\* path.join: empty and "." segments drop out, ".." leaves the directory
RECURSIVE normalize(_, _)
normalize(segments, stack) ==
    IF segments = << >> THEN stack
    ELSE LET s == Head(segments)
         IN normalize(Tail(segments),
                IF s = << >> \/ s = <<".">> THEN stack
                ELSE IF s = <<".",".">>
                THEN (IF stack # << >> /\ stack[Len(stack)] # <<".",".">>
                      THEN SubSeq(stack, 1, Len(stack) - 1)
                      ELSE Append(stack, <<".",".">>))
                ELSE Append(stack, s))

\* path.join(__dirname, "../years/" + name), __dirname being routes/v1
yearsPath(name) ==
    LET joined == normalize(<< <<"r","o","u","t","e","s">>, <<"v","1">>, <<".",".">>, <<"y","e","a","r","s">> >> \o split(name, "/"),
                            << >>)
    IN IF Len(joined) = 3 /\ SubSeq(joined, 1, 2) = << <<"r","o","u","t","e","s">>, <<"y","e","a","r","s">> >>
       THEN joined[3]
       ELSE <<"/">> \o join(joined, <<"/">>)

\* the error middleware of the application: err.status || 500
errorResponse(status, message) ==
    Json(status, [error |-> [message |-> message, statusCode |-> status]])

NoVacations == <<"No vacations found for this filter settings.">>

\* what JSON.parse gave: an array, or another value of a file that holds no array
IsArray(content) == "object" \notin DOMAIN content

\* Number(s) for the strings drawn as year parameters: decimal digits or
\* something that is no number
toNumber(s) ==
    IF s # << >> /\ AllDigits(s) THEN [nan |-> FALSE, n |-> Number(s)] ELSE NaN

\* GET /api/v1/:year; a parameter arrives percent-decoded, so it can hold "/"
getAllVacationsByYear(st, params) ==
    LET dataY == ReadFile(st.reads, yearsPath(params.year \o <<".","j","s","o","n">>))
    IN [cache |-> st.cache, reads |-> dataY.reads,
        res |-> IF ~dataY.content.ok THEN errorResponse(500, <<"ENOENT or SyntaxError">>)
                ELSE IF IsArray(dataY.content) THEN Json(200, dataY.content.data)
                ELSE Json(200, dataY.content.object)]

\* GET /api/v1/:year/:state
getAllVacationsByYearAndState(st, params) ==
    LET dataY == ReadFile(st.reads, yearsPath(params.year \o <<".","j","s","o","n">>))
        year == toNumber(params.year)
        vacations == SelectSeq(dataY.content.data, LAMBDA vac :
                         /\ vac.stateCode = params.state
                         /\ ~year.nan /\ vac.year = year.n)
    IN [cache |-> st.cache, reads |-> dataY.reads,
        res |-> IF ~dataY.content.ok THEN errorResponse(500, <<"ENOENT or SyntaxError">>)
                ELSE IF ~IsArray(dataY.content)
                THEN errorResponse(500, <<"vacs.filter is not a function">>)
                ELSE IF Len(vacations) = 0 THEN errorResponse(404, NoVacations)
                ELSE Json(200, vacations)]

(***************************************************************************)
(* Requests to the V2 routes.  The years directory holds two years with    *)
(* records (2024 not in order of start), one file that does not parse      *)
(* (2026), one year with no records (2027) and a file that is no year.     *)
(* A request finds the cache cold, or warmed by a readiness probe or by an *)
(* earlier request that read all years.                                    *)
(***************************************************************************)
UnparsableYear == <<"2","0","2","6",".","j","s","o","n">>

YearParams == { <<"2","0","2","4">>, <<"2","0","2","5">>, <<"2","0","2","6">>, <<"2","0","2","7">>, <<"2","0","3","0">>, <<"1","9","0","0">>, <<"2","1","0","0">>,
                <<"1","8","9","9">>, <<"2","1","0","1">>, <<"a","b","c">>, <<"2","0","2","4","a","b","c">>, <<"2","0","2","4",".","5">> }
DaysParams == { <<"1">>, <<"3","0">>, <<"3","6","5">>, <<"0">>, <<"3","6","6">>, <<"-","5">>, <<"a","b","c">>, <<"3","0","a","b","c">>, <<"1",".","5">> }
DateParams == { <<"2","0","2","4","-","0","8","-","0","1">>, <<"2","0","2","4","-","0","3","-","2","5">>, <<"2","0","2","3","-","0","1","-","0","1">>, <<"2","0","2","4","-","0","2","-","3","0">>,
                <<"i","n","v","a","l","i","d","-","d","a","t","e">> }
StateParams == { <<"B","Y">>, <<"b","y">>, <<"X","X">> }
FromArgs == { Undefined, <<"2","0","2","4","-","0","7","-","0","1">>, <<"2","1","0","1","-","0","1","-","0","1">>, <<"2","0","2","4","-","1","3","-","0","1">> }
ToArgs == { Undefined, <<"2","0","2","4","-","0","3","-","3","1">>, <<"2","0","2","4","-","0","2","-","3","0">> }
TypeArgs == { Undefined, <<"s","o","m","m","e","r","f","e","r","i","e","n">>, <<"s","o","m","m","e","r","f","e","r","i","e","n",",","f","o","o">> }
StatesArgs == { Undefined, <<"b","y">>, <<"X","X">> }
FieldsArgs == { Undefined, <<"n","a","m","e">>, <<"s","t","a","r","t",",","n","a","m","e">>, <<"y","e","a","r",",","n","a","m","e">>, <<"b","o","g","u","s">> }
QArgs == { Undefined, << >>, <<" ">>, <<"f","e","r","i","e","n">>, <<"o","s","t","e","r">> }
YearArgs == { Undefined, << >>, <<"2","0","2","4">>, <<"2","0","2","5">>, <<"2","0","3","0">>, <<"1","8","9","9">>, <<"a","b","c">>, <<"2","0","2","4","a","b","c">> }
V1YearParams == { <<"2","0","2","4">>, <<"2","0","2","5">>, <<"2","0","2","6">>, <<"2","0","2","7">>, <<"2","0","3","0">>, <<"2","0","2","4","a","b","c">>,
                  <<".",".","/","y","e","a","r","s","/","2","0","2","4">>, <<".",".","/",".",".","/","p","a","c","k","a","g","e">> }

\* a file of the application outside the years directory
PackageJson == <<"/","p","a","c","k","a","g","e",".","j","s","o","n">>

PackageContent ==
    [ok |-> TRUE, data |-> << >>, object |-> [name |-> <<"s","c","h","u","l","f","e","r","i","e","n","-","a","p","i">>]]

V2Nows == { DateOf(DateUTC(2024, 1, 1, 0, 0)), DateOf(DateUTC(2024, 8, 1, 12, 0)) }

NoQuery == [q |-> Undefined, year |-> Undefined, from |-> Undefined, to |-> Undefined,
            type |-> Undefined, states |-> Undefined, fields |-> Undefined]

InitV2 ==
    /\ files = (PackageJson :> PackageContent)
                 @@ [f \in {DirCandidates[i] : i \in 1..Len(DirCandidates)} |->
                       IF f = UnparsableYear \/ ~endsWith(f, <<".","j","s","o","n">>)
                       THEN Malformed ELSE Parsed(FileData(f))]
    /\ availableYears = _getAvailableYears(dirListing)
    /\ cache = EmptyMap
    /\ reads = EmptyMap
    /\ call = [route |-> "none"]
    /\ ret = NoRet
    /\ pc = "idle"

\* GET /ready or /status before the request: isHealthy loads the first year
Probe ==
    /\ pc = "idle"
    /\ reads = EmptyMap
    /\ LET r == isHealthy(Store)
       IN cache' = r.cache /\ reads' = r.reads
    /\ UNCHANGED <<files, availableYears, call, ret, pc>>

\* an earlier request that read all years
Preload ==
    /\ pc = "idle"
    /\ \A f \in DOMAIN reads : f # UnparsableYear
    /\ LET r == getAllData(Store)
       IN cache' = r.cache /\ reads' = r.reads
    /\ UNCHANGED <<files, availableYears, call, ret, pc>>

\* the request is handled in one step: the handlers do not yield
Handled(route, params, query, now, r) ==
    /\ pc = "idle"
    /\ pc' = "done"
    /\ call' = [route |-> route, params |-> params, query |-> query, now |-> now,
                cacheBefore |-> cache, readsBefore |-> reads]
    /\ cache' = r.cache
    /\ reads' = r.reads
    /\ ret' = r.res
    /\ UNCHANGED <<files, availableYears>>

NoParams == [year |-> Undefined]

GetCurrent ==
    \E states \in StatesArgs, fields \in FieldsArgs \ { <<"y","e","a","r",",","n","a","m","e">> }, now \in V2Nows :
        LET query == [NoQuery EXCEPT !.states = states, !.fields = fields]
        IN Handled("current", NoParams, query, now, getCurrent(Store, query, now))

GetNext ==
    \E days \in DaysParams, states \in StatesArgs \ { <<"X","X">> },
       fields \in FieldsArgs \ { <<"y","e","a","r",",","n","a","m","e">> }, now \in V2Nows :
        LET query == [NoQuery EXCEPT !.states = states, !.fields = fields]
            params == [days |-> days]
        IN Handled("next", params, query, now, getNext(Store, params, query, now))

GetDate ==
    \E date \in DateParams, states \in StatesArgs,
       fields \in FieldsArgs \ { <<"y","e","a","r",",","n","a","m","e">>, <<"s","t","a","r","t",",","n","a","m","e">> } :
        LET query == [NoQuery EXCEPT !.states = states, !.fields = fields]
            params == [date |-> date]
        IN Handled("date", params, query, DateOf(0), getDate(Store, params, query))

GetSearch ==
    \E q \in QArgs, year \in YearArgs, states \in StatesArgs \ { <<"b","y">> },
       fields \in FieldsArgs :
        LET query == [NoQuery EXCEPT !.q = q, !.year = year, !.states = states,
                                     !.fields = fields]
        IN Handled("search", NoParams, query, DateOf(0), getSearch(Store, query))

GetStats ==
    \E year \in YearParams :
        LET params == [year |-> year]
        IN Handled("stats", params, NoQuery, DateOf(0), getStats(Store, params))

GetCompare ==
    \E yearA \in YearParams, yearB \in YearParams :
        LET params == [yearA |-> yearA, yearB |-> yearB]
        IN Handled("compare", params, NoQuery, DateOf(0), getCompare(Store, params))

GetYear ==
    \E year \in YearParams, from \in FromArgs, to \in ToArgs, type \in TypeArgs,
       states \in StatesArgs, fields \in FieldsArgs \ { <<"y","e","a","r",",","n","a","m","e">>, <<"s","t","a","r","t",",","n","a","m","e">> } :
        LET query == [NoQuery EXCEPT !.from = from, !.to = to, !.type = type,
                                     !.states = states, !.fields = fields]
            params == [year |-> year]
        IN Handled("year", params, query, DateOf(0), getYear(Store, params, query))

GetYearState ==
    \E year \in YearParams, state \in StateParams,
       from \in FromArgs \ { <<"2","1","0","1","-","0","1","-","0","1">>, <<"2","0","2","4","-","1","3","-","0","1">> },
       type \in TypeArgs \ { <<"s","o","m","m","e","r","f","e","r","i","e","n">> },
       fields \in FieldsArgs \ { <<"y","e","a","r",",","n","a","m","e">>, <<"s","t","a","r","t",",","n","a","m","e">> } :
        LET query == [NoQuery EXCEPT !.from = from, !.type = type, !.fields = fields]
            params == [year |-> year, state |-> state]
        IN Handled("yearState", params, query, DateOf(0),
                   getYearState(Store, params, query))

GetV1Year ==
    \E year \in V1YearParams :
        LET params == [year |-> year]
        IN Handled("v1Year", params, NoQuery, DateOf(0),
                   getAllVacationsByYear(Store, params))

GetV1YearState ==
    \E year \in V1YearParams, state \in StateParams :
        LET params == [year |-> year, state |-> state]
        IN Handled("v1YearState", params, NoQuery, DateOf(0),
                   getAllVacationsByYearAndState(Store, params))

NextV2 == Probe \/ Preload \/ GetCurrent \/ GetNext \/ GetDate \/ GetSearch
             \/ GetStats \/ GetCompare \/ GetYear \/ GetYearState
             \/ GetV1Year \/ GetV1YearState

SpecV2 == InitV2 /\ [][NextV2]_vars

(***************************************************************************)
(* Claims about the V2 routes.  After a request, call is the request with  *)
(* the cache and read counts it found, ret the response.                   *)
(***************************************************************************)
\* s is the decimal numeral of an integer in lo..hi
IsIntegerIn(s, lo, hi) ==
    LET neg == s # << >> /\ Head(s) = "-"
        ds == IF neg THEN Tail(s) ELSE s
        n == IF neg THEN -Number(ds) ELSE Number(ds)
    IN s \notin {Undefined, Null} /\ ds # << >> /\ AllDigits(ds) /\ n >= lo /\ n <= hi

\* the year values a request carries; an empty year of /search counts as
\* not supplied
YearsGiven ==
    CASE call.route \in {"year", "yearState", "stats"} -> {call.params.year}
      [] call.route = "compare" -> {call.params.yearA, call.params.yearB}
      [] call.route = "search" -> {call.query.year} \ {Undefined, << >>}
      [] OTHER -> {}

YearError == ErrorJson(400, <<"Year must be a valid number between 1900 and 2100">>)
DaysError == ErrorJson(400, <<"Days must be a number between 1 and 365">>)

\* the request neither read the file of the year that y denotes to parseInt
\* nor changed the cache's entry for it
NothingLoadedFor(y) ==
    LET n == parseInt(y)
        yearStr == NumberToString(n.n)
    IN \/ n.nan
       \/ /\ Count(reads, yearStr \o <<".","j","s","o","n">>) = Count(call.readsBefore, yearStr \o <<".","j","s","o","n">>)
          /\ (yearStr \in DOMAIN cache) = (yearStr \in DOMAIN call.cacheBefore)

(***************************************************************************)
(* C11: every V2 route that takes a year answers 400 to every year value   *)
(* that is not an integer in [1900, 2100], with no record set loaded for   *)
(* that value, and does not reject the years 1900..2100.                    *)
(***************************************************************************)
C11_YearRejectedExactly ==
    pc = "done" =>
        /\ \A y \in YearsGiven :
               ~IsIntegerIn(y, 1900, 2100) => ret.status = 400 /\ NothingLoadedFor(y)
        /\ (\A y \in YearsGiven : IsIntegerIn(y, 1900, 2100)) => ret # YearError

(***************************************************************************)
(* C12: GET /next/:days answers 400 to every days value that is not an     *)
(* integer in [1, 365] and does not reject the integers 1..365.            *)
(***************************************************************************)
C12_DaysRejectedExactly ==
    pc = "done" /\ call.route = "next" =>
        /\ ~IsIntegerIn(call.params.days, 1, 365) => ret.status = 400
        /\ IsIntegerIn(call.params.days, 1, 365) => ret # DaysError

\* a comma-separated parameter is absent or has only entries of its vocabulary
ValidList(fn, param) ==
    Falsy(param) \/ (IsString(param) /\ Offenders(fn, split(param, ",")) = << >>)

ValidRange(from, to) ==
    /\ Falsy(from) \/ IsRealCalendarDate(from)
    /\ Falsy(to) \/ IsRealCalendarDate(to)
    /\ (~Falsy(from) /\ ~Falsy(to)) => Midnight(from) <= Midnight(to)

ValidQuery ==
    /\ ValidRange(call.query.from, call.query.to)
    /\ ValidList("filterByTypes", call.query.type)
    /\ ValidList("filterByStates", call.query.states)
    /\ ValidList("selectFields", call.query.fields)

\* the year's file is there and parses
Loadable(year) ==
    /\ (year \o <<".","j","s","o","n">>) \in DOMAIN files
    /\ files[year \o <<".","j","s","o","n">>].ok

RecordsOf(year) == files[year \o <<".","j","s","o","n">>].data

\* the objects a valid field list selects from the records, as C7 has them
Projection(holidays, fields) ==
    IF Falsy(fields) THEN holidays
    ELSE LET wanted == FirstOccurrences(<< >>, Normalised("selectFields", split(fields, ",")))
         IN [i \in 1..Len(holidays) |->
               [k \in 1..Len(wanted) |->
                  <<wanted[k], holidays[i][PropertyKey(wanted[k])]>>]]

\* the entries of a comma-separated parameter
Entries(param) == LET es == split(param, ",") IN {es[i] : i \in 1..Len(es)}

\* the records a valid query keeps (C2, C5, C6): overlap with the range,
\* a listed type, a listed state; an absent parameter keeps all
Kept(holidays, query) ==
    SelectSeq(holidays, LAMBDA h :
        /\ Falsy(query.to) \/ StartOf(h) <= Midnight(query.to)
        /\ Falsy(query.from) \/ EndOf(h) >= Midnight(query.from)
        /\ Falsy(query.type) \/
             \E e \in Entries(query.type) :
                 toLowerCase(h.name) = toLowerCase(trim(e))
        /\ Falsy(query.states) \/
             \E e \in Entries(query.states) :
                 toUpperCase(h.stateCode) = toUpperCase(trim(e)))

\* what GET /:year and GET /:year/:state are to list for a valid request
ExpectedOfYear ==
    LET records == RecordsOf(call.params.year)
        ofState == IF call.route = "yearState"
                   THEN SelectSeq(records, LAMBDA h :
                            /\ h.stateCode = toUpperCase(call.params.state)
                            /\ h.year = Number(call.params.year))
                   ELSE records
    IN Projection(Kept(ofState, call.query), call.query.fields)

(***************************************************************************)
(* C13: GET /:year and GET /:year/:state answer 404 exactly when the year  *)
(* is valid and loadable, every supplied query parameter is valid and the  *)
(* filtered list is empty; when that list is not empty they answer 200     *)
(* with exactly it.                                                        *)
(***************************************************************************)
C13_NotFoundExactly ==
    (pc = "done" /\ call.route \in {"year", "yearState"}) =>
        LET answerable == /\ IsIntegerIn(call.params.year, 1900, 2100)
                          /\ Loadable(call.params.year)
                          /\ ValidQuery
        IN /\ ret.status = 404 <=> (answerable /\ ExpectedOfYear = << >>)
           /\ (answerable /\ ExpectedOfYear # << >>) => ret = Json(200, ExpectedOfYear)

\* the year's file is missing from the years directory
Missing(year) == (year \o <<".","j","s","o","n">>) \notin DOMAIN files

(***************************************************************************)
(* C14: for valid years (and a valid query) a year without a backing file  *)
(* is answered 404 and a year whose file cannot be read or parsed 5xx;     *)
(* neither is answered 400.                                                *)
(***************************************************************************)
C14_LoadFailureStatus ==
    (/\ pc = "done"
     /\ call.route \in {"year", "yearState", "stats", "compare"}
     /\ \A y \in YearsGiven : IsIntegerIn(y, 1900, 2100)
     /\ ValidQuery)
    => LET failing == {y \in YearsGiven : ~Loadable(y)}
       IN /\ failing # {} => ret.status # 400
          /\ (failing # {} /\ \A y \in failing : Missing(y)) => ret.status = 404
          /\ (failing # {} /\ \A y \in failing : ~Missing(y)) => ret.status \in 500..599

\* a supplied parameter that is invalid by itself
InvalidParameter ==
    \/ \E y \in YearsGiven : ~IsIntegerIn(y, 1900, 2100)
    \/ call.route = "next" /\ ~IsIntegerIn(call.params.days, 1, 365)
    \/ call.route = "date" /\ ~IsRealCalendarDate(call.params.date)
    \/ ~Falsy(call.query.from) /\ ~IsRealCalendarDate(call.query.from)
    \/ ~Falsy(call.query.to) /\ ~IsRealCalendarDate(call.query.to)
    \/ ~ValidList("filterByTypes", call.query.type)
    \/ ~ValidList("filterByStates", call.query.states)
    \/ ~ValidList("selectFields", call.query.fields)

\* the body of an error response: a message and no records
IsErrorBody(body) ==
    /\ DOMAIN body = {"error"}
    /\ DOMAIN body.error = {"message"}
    /\ body.error.message # << >>

(***************************************************************************)
(* C15: on every V2 route a request with an invalid supplied parameter is  *)
(* answered 400 with an error message and no records, never 200 or 404,    *)
(* also when the filters before the invalid one leave no record.           *)
(***************************************************************************)
C15_InvalidParameterIs400 ==
    (pc = "done" /\ InvalidParameter) => ret.status = 400 /\ IsErrorBody(ret.body)

\* the records of all available years whose file loads, in year order
RECURSIVE RecordsOfYears(_)
RecordsOfYears(years) ==
    IF years = << >> THEN << >>
    ELSE (IF Loadable(NatStr(Head(years))) THEN RecordsOf(NatStr(Head(years))) ELSE << >>)
         \o RecordsOfYears(Tail(years))

AllRecords == RecordsOfYears(availableYears)

\* the ways to order n list elements
Orderings(n) == {p \in [1..n -> 1..n] : \A i, j \in 1..n : p[i] = p[j] => i = j}

Reordered(holidays, p) == [i \in 1..Len(holidays) |-> holidays[p[i]]]

AscendingByStart(holidays) ==
    \A i \in 1..Len(holidays) - 1 : StartOf(holidays[i]) <= StartOf(holidays[i + 1])

AscendingByYearAndStart(holidays) ==
    \A i \in 1..Len(holidays) - 1 :
        \/ holidays[i].year < holidays[i + 1].year
        \/ /\ holidays[i].year = holidays[i + 1].year
           /\ StartOf(holidays[i]) <= StartOf(holidays[i + 1])

\* the records GET /next/:days is to list: those starting within the window
\* (C10), of the listed states
UpcomingKept ==
    Kept(SelectSeq(AllRecords, LAMBDA h :
             /\ StartOf(h) >= call.now.t
             /\ StartOf(h) <= call.now.t + Number(call.params.days) * MinutesPerDay),
         call.query)

(***************************************************************************)
(* C16: for every valid request to GET /next/:days, whatever valid fields  *)
(* it selects (start or not), the returned list is that of the upcoming    *)
(* records in ascending order of their start.                              *)
(***************************************************************************)
C16_NextSortedByStart ==
    (/\ pc = "done"
     /\ call.route = "next"
     /\ IsIntegerIn(call.params.days, 1, 365)
     /\ ValidQuery)
    => /\ ret.status = 200
       /\ \E p \in Orderings(Len(UpcomingKept)) :
             /\ AscendingByStart(Reordered(UpcomingKept, p))
             /\ ret.body = Projection(Reordered(UpcomingKept, p), call.query.fields)

\* the records GET /search is to list: those matching q (C8), of the year
\* and of the listed states
SearchKept ==
    LET term == trim(toLowerCase(call.query.q))
    IN Kept(SelectSeq(AllRecords, LAMBDA h :
                /\ \/ includes(toLowerCase(h.name), term)
                   \/ includes(toLowerCase(h.slug), term)
                   \/ includes(toLowerCase(h.stateCode), term)
                /\ Falsy(call.query.year) \/ h.year = Number(call.query.year)),
            call.query)

(***************************************************************************)
(* C17: for every valid request to GET /search, whatever valid fields it   *)
(* selects (year and start or not), the holidays returned are the matching *)
(* records in ascending order of (year, start), and results is their       *)
(* number.                                                                 *)
(***************************************************************************)
C17_SearchSortedByYearStart ==
    (/\ pc = "done"
     /\ call.route = "search"
     /\ ~Falsy(call.query.q)
     /\ Falsy(call.query.year) \/ IsIntegerIn(call.query.year, 1900, 2100)
     /\ ValidQuery)
    => /\ ret.status = 200
       /\ ret.body.results = Len(ret.body.holidays)
       /\ \E p \in Orderings(Len(SearchKept)) :
             /\ AscendingByYearAndStart(Reordered(SearchKept, p))
             /\ ret.body.holidays
                  = Projection(Reordered(SearchKept, p), call.query.fields)

RECURSIVE Sum(_)
Sum(counts) ==
    IF DOMAIN counts = {} THEN 0
    ELSE LET k == CHOOSE k \in DOMAIN counts : TRUE
         IN counts[k] + Sum([j \in DOMAIN counts \ {k} |-> counts[j]])

\* the records of the year a response names
RecordsOfResponse(year) == RecordsOf(NatStr(year))

(***************************************************************************)
(* C18: in the statistics of a loadable year the per-state counts and the  *)
(* per-type counts each sum to totalHolidays, which is the number of the   *)
(* year's records.                                                         *)
(***************************************************************************)
C18_StatsCountsAddUp ==
    (pc = "done" /\ call.route = "stats" /\ ret.status = 200)
    => /\ ret.body.totalHolidays = Len(RecordsOfResponse(ret.body.year))
       /\ Sum(ret.body.byState) = ret.body.totalHolidays
       /\ Sum(ret.body.byType) = ret.body.totalHolidays

\* 2024 has three records, two of them of one state
C18_Witness ==
    /\ pc = "done"
    /\ call.route = "stats"
    /\ call.params.year = <<"2","0","2","4">>
    /\ ret.status = 200
    /\ ret.body.totalHolidays = 3
    /\ ret.body.byState = (<<"B","Y">> :> 2) @@ (<<"B","W">> :> 1)
    /\ Sum(ret.body.byType) = 3

\* a record's days: the whole days from start to end, a begun day counted
\* whole, plus one
DaysOf(h) ==
    1 + CHOOSE d \in 0..366 :
            /\ d * MinutesPerDay >= EndOf(h) - StartOf(h)
            /\ (d - 1) * MinutesPerDay < EndOf(h) - StartOf(h)

RECURSIVE TotalDays(_)
TotalDays(holidays) ==
    IF holidays = << >> THEN 0 ELSE DaysOf(Head(holidays)) + TotalDays(Tail(holidays))

\* hundredths is total / count rounded to two decimal places
IsRoundedQuotient(hundredths, total, count) ==
    /\ 2 * (100 * total - hundredths * count) <= count
    /\ 2 * (hundredths * count - 100 * total) <= count

(***************************************************************************)
(* C19: in the statistics of a loadable year, also one without records,    *)
(* a record's duration is ceil((end - start) / one day) + 1 and            *)
(* averageDuration is a number: the sum of the durations divided by the    *)
(* number of records, rounded to two decimal places.                       *)
(***************************************************************************)
C19_StatsDurations ==
    (pc = "done" /\ call.route = "stats" /\ ret.status = 200)
    => LET holidays == RecordsOfResponse(ret.body.year)
       IN /\ \A which \in {"longestHoliday", "shortestHoliday"} :
                 ret.body[which] # Null =>
                     \E i \in 1..Len(holidays) :
                         ret.body[which] = ("duration" :> DaysOf(holidays[i])) @@ holidays[i]
          /\ ~ret.body.averageDuration.null
          /\ Len(holidays) > 0 =>
                 IsRoundedQuotient(ret.body.averageDuration.hundredths, TotalDays(holidays),
                                   Len(holidays))

(***************************************************************************)
(* C20: the comparison of two loadable years, also of a year with itself,  *)
(* has difference = totalB - totalA and in byState and byType exactly one  *)
(* entry per state code and per type name of either year, which holds the  *)
(* year's counts under the two years and difference = countB - countA.     *)
(***************************************************************************)
C20_CompareEntries ==
    (pc = "done" /\ call.route = "compare" /\ ret.status = 200)
    => LET holidaysA == RecordsOfResponse(ret.body.yearA)
           holidaysB == RecordsOfResponse(ret.body.yearB)
           both == holidaysA \o holidaysB
           CountIn(holidays, key, value) ==
               Cardinality({i \in 1..Len(holidays) : holidays[i][key] = value})
           EntriesRight(entries, key) ==
               /\ DOMAIN entries = {both[i][key] : i \in 1..Len(both)}
               /\ \A value \in DOMAIN entries :
                     LET entry == entries[value]
                         a == CountIn(holidaysA, key, value)
                         b == CountIn(holidaysB, key, value)
                     IN /\ DOMAIN entry = {NatStr(ret.body.yearA), NatStr(ret.body.yearB),
                                           <<"d","i","f","f","e","r","e","n","c","e">>}
                        /\ entry[NatStr(ret.body.yearA)] = a
                        /\ entry[NatStr(ret.body.yearB)] = b
                        /\ entry[<<"d","i","f","f","e","r","e","n","c","e">>] = b - a
       IN /\ ret.body.totalHolidaysA = Len(holidaysA)
          /\ ret.body.totalHolidaysB = Len(holidaysB)
          /\ ret.body.difference = Len(holidaysB) - Len(holidaysA)
          /\ EntriesRight(ret.body.byState, "stateCode")
          /\ EntriesRight(ret.body.byType, "name")

\* 2024 against 2025: BY has two records, then one; BW one, then none
C20_Witness ==
    /\ pc = "done"
    /\ call.route = "compare"
    /\ call.params = [yearA |-> <<"2","0","2","4">>, yearB |-> <<"2","0","2","5">>]
    /\ ret.status = 200
    /\ ret.body.difference = -2
    /\ ret.body.byState[<<"B","Y">>] = (<<"2","0","2","4">> :> 2) @@ (<<"2","0","2","5">> :> 1) @@ (<<"d","i","f","f","e","r","e","n","c","e">> :> -1)
    /\ ret.body.byState[<<"B","W">>][<<"d","i","f","f","e","r","e","n","c","e">>] = -1
    /\ DOMAIN ret.body.byType = { <<"s","o","m","m","e","r","f","e","r","i","e","n">>, <<"o","s","t","e","r","f","e","r","i","e","n">>, <<"w","e","i","h","n","a","c","h","t","s","f","e","r","i","e","n">>,
                                  <<"w","i","n","t","e","r","f","e","r","i","e","n">> }

(***************************************************************************)
(* The loader over a years directory that also holds a copy of a year      *)
(* file under another name, a year of three digits and files that are no   *)
(* year; the file of 2025 may be one that does not parse.                  *)
(***************************************************************************)
DirNames == << <<"2","0","2","4","-","o","l","d",".","j","s","o","n">>, <<"2","0","2","4",".","j","s","o","n">>, <<"2","0","2","5",".","j","s","o","n">>, <<"9","9","9",".","j","s","o","n">>, <<"R","E","A","D","M","E",".","m","d">>,
               <<"n","o","t","e","s",".","j","s","o","n">> >>

InitDir ==
    /\ \E present \in SUBSET {DirNames[i] : i \in 1..Len(DirNames)} :
         \E bad \in SUBSET (present \cap { <<"2","0","2","5",".","j","s","o","n">> }) :
            /\ files = [f \in present |->
                          IF f \in bad \/ ~endsWith(f, <<".","j","s","o","n">>)
                          THEN Malformed ELSE Parsed(FileData(f))]
            /\ availableYears
                 = _getAvailableYears(SelectSeq(DirNames, LAMBDA f : f \in present))
    /\ cache = EmptyMap
    /\ reads = EmptyMap
    /\ call = [fn |-> "constructor"]
    /\ ret = NoRet
    /\ pc = "done"

NextDir == GetAvailableYears \/ GetAllData

SpecDir == InitDir /\ [][NextDir]_vars

\* the years y whose file y.json is in the directory
YearsWithFile ==
    {Number(replaceFirst(f, <<".","j","s","o","n">>)) :
        f \in {g \in DOMAIN files : /\ endsWith(g, <<".","j","s","o","n">>)
                                    /\ Len(g) > 5
                                    /\ AllDigits(SubSeq(g, 1, Len(g) - 5))}}

Ascending(years) == \A i \in 1..Len(years) - 1 : years[i] < years[i + 1]

\* the records of the loadable ones of the years, in ascending year order
RECURSIVE RecordsInYearOrder(_)
RecordsInYearOrder(years) ==
    IF years = {} THEN << >>
    ELSE LET y == CHOOSE y \in years : \A z \in years : y <= z
         IN (IF Loadable(NatStr(y)) THEN RecordsOf(NatStr(y)) ELSE << >>)
            \o RecordsInYearOrder(years \ {y})

(***************************************************************************)
(* C21: getAllData returns the records of the years that have a file, in   *)
(* ascending numeric year order, each loadable year's once; a year that    *)
(* fails to load adds nothing and the call does not fail.                  *)
(***************************************************************************)
C21_AllDataConcatenation ==
    call.fn = "getAllData" =>
        /\ ret.ok
        /\ ret.val = RecordsInYearOrder(YearsWithFile)

(***************************************************************************)
(* C22: whatever file names the years directory holds, getAvailableYears   *)
(* returns, in ascending numeric order and without duplicates, exactly the *)
(* years y whose file y.json is there.                                     *)
(***************************************************************************)
C22_AvailableYearsSorted ==
    call.fn = "getAvailableYears" =>
        /\ ret.ok
        /\ Ascending(ret.val)
        /\ {ret.val[i] : i \in 1..Len(ret.val)} = YearsWithFile

(***************************************************************************)
(* C23: whatever V1 and V2 requests were handled, every cached year        *)
(* collection holds the records, field values and order that were loaded   *)
(* from its file: no handler, the in-place sorts of /next and /search and  *)
(* the duration annotation of /stats included, changes a stored record.    *)
(***************************************************************************)
C23_CachedRecordsUnchanged ==
    \A k \in DOMAIN cache :
        /\ Loadable(k)
        /\ cache[k] = RecordsOf(k)
        /\ (pc = "done" /\ k \in DOMAIN call.cacheBefore) => cache[k] = call.cacheBefore[k]

\* /search with a blank term sorts the array getAllData returned as it is:
\* the response is in another order than the cached year, which stays
C23_Witness ==
    /\ pc = "done"
    /\ call.route = "search"
    /\ call.query.q = <<" ">>
    /\ Falsy(call.query.fields) /\ Falsy(call.query.year) /\ Falsy(call.query.states)
    /\ <<"2","0","2","4">> \in DOMAIN call.cacheBefore
    /\ ret.status = 200
    /\ SubSeq(ret.body.holidays, 1, 3) = <<osterBW2024, sommerBY2024, weihnachtBY2024>>
    /\ cache[<<"2","0","2","4">>] = <<sommerBY2024, osterBW2024, weihnachtBY2024>>

\* the response of the V1 handler to the path parameters of the request
V1Response == getAllVacationsByYearAndState(Store, call.params).res

(***************************************************************************)
(* C24: without query parameters GET /api/v2/:year/:state does as          *)
(* GET /api/v1/:year/:state does: it succeeds for the same year and state  *)
(* with the same records in the same order, start and end as stored, and   *)
(* it answers 404 for the same year and state, a lowercase state included. *)
(***************************************************************************)
C24_SameAsV1 ==
    (/\ pc = "done"
     /\ call.route = "yearState"
     /\ call.query = NoQuery)
    => /\ (ret.status = 200) <=> (V1Response.status = 200)
       /\ (ret.status = 404) <=> (V1Response.status = 404)
       /\ (ret.status = 200 /\ V1Response.status = 200) => ret.body = V1Response.body

\* the files the request read
FilesRead == {f \in DOMAIN reads : reads[f] > Count(call.readsBefore, f)}

(***************************************************************************)
(* C30: whatever the year parameter of the two V1 routes, the only file    *)
(* read and returned is the file <year>.json directly in the years         *)
(* directory, never a file outside it.                                     *)
(***************************************************************************)
C30_V1StaysInYearsDirectory ==
    (pc = "done" /\ call.route \in {"v1Year", "v1YearState"})
    => /\ \A f \in FilesRead : ~includes(f, <<"/">>)
       /\ ret.status = 200 => Cardinality(FilesRead) = 1

V2Routes == {"current", "next", "date", "search", "stats", "compare", "year", "yearState"}

(***************************************************************************)
(* C25: a V2 request validates all its supplied parameters before it       *)
(* loads: a request with an invalid parameter reads no year file and       *)
(* leaves the cache as it was.                                             *)
(***************************************************************************)
C25_NoLoadBeforeValidation ==
    (pc = "done" /\ call.route \in V2Routes /\ InvalidParameter)
    => cache = call.cacheBefore /\ reads = call.readsBefore

\* the parameter an error message is about
ErrorKind(message) ==
    IF message = YearError.body.error.message THEN "year"
    ELSE IF message[1] = ErrorText("filterByTypes")[1] THEN "type"
    ELSE IF message[1] = ErrorText("filterByStates")[1] THEN "states"
    ELSE IF message[1] = ErrorText("selectFields")[1] THEN "fields"
    ELSE "range"

\* the invalid parameters of the request, in the order year, date range,
\* type, states, fields
InvalidKinds ==
    SelectSeq(<<"year", "range", "type", "states", "fields">>,
              LAMBDA kind :
                  CASE kind = "year" -> \E y \in YearsGiven : ~IsIntegerIn(y, 1900, 2100)
                    [] kind = "range" -> ~ValidRange(call.query.from, call.query.to)
                    [] kind = "type" -> ~ValidList("filterByTypes", call.query.type)
                    [] kind = "states" -> ~ValidList("filterByStates", call.query.states)
                    [] OTHER -> ~ValidList("selectFields", call.query.fields))

\* the request got past the checks of the parameters that only its route has
RouteParametersValid ==
    /\ call.route = "next" => IsIntegerIn(call.params.days, 1, 365)
    /\ call.route = "date" => IsRealCalendarDate(call.params.date)
    /\ call.route = "search" => ~Falsy(call.query.q)

(***************************************************************************)
(* C26: on every V2 route, a request with several invalid parameters       *)
(* among year, date range (from/to), type, states and fields is answered   *)
(* with exactly one error, that of the first invalid one in this order.    *)
(***************************************************************************)
C26_FirstInvalidReported ==
    (/\ pc = "done"
     /\ call.route \in V2Routes
     /\ RouteParametersValid
     /\ Len(InvalidKinds) > 1)
    => /\ ret.status = 400
       /\ IsErrorBody(ret.body)
       /\ ErrorKind(ret.body.error.message) = InvalidKinds[1]

(***************************************************************************)
(* Statistics of a year whose records tie in duration.                     *)
(***************************************************************************)
pfingstBY2024 == Holiday(<<"p","f","i","n","g","s","t","f","e","r","i","e","n">>, 2024, <<"B","Y">>, <<"2","0","2","4","-","0","5","-","2","1","T","0","0",":","0","0","Z">>, <<"2","0","2","4","-","0","6","-","0","2","T","0","0",":","0","0","Z">>)
herbstBW2024 == Holiday(<<"h","e","r","b","s","t","f","e","r","i","e","n">>, 2024, <<"B","W">>, <<"2","0","2","4","-","1","0","-","2","8","T","0","0",":","0","0","Z">>, <<"2","0","2","4","-","1","1","-","1","0","T","0","0",":","0","0","Z">>)

\* 13, 13, 14 and 14 days
StatsRecords == {osterBW2024, pfingstBY2024, weihnachtBY2024, herbstBW2024}

InitStats ==
    /\ \E holidays \in SeqsOver(StatsRecords) :
          files = [f \in {DirCandidates[i] : i \in 1..Len(DirCandidates)} |->
                     IF f = UnparsableYear \/ ~endsWith(f, <<".","j","s","o","n">>) THEN Malformed
                     ELSE IF f = <<"2","0","2","4",".","j","s","o","n">> THEN Parsed(holidays)
                     ELSE Parsed(FileData(f))]
    /\ availableYears = _getAvailableYears(dirListing)
    /\ cache = EmptyMap
    /\ reads = EmptyMap
    /\ call = [route |-> "none"]
    /\ ret = NoRet
    /\ pc = "idle"

NextStats == GetStats

SpecStats == InitStats /\ [][NextStats]_vars

\* the record at position i with its duration
Annotated(holidays, i) == ("duration" :> DaysOf(holidays[i])) @@ holidays[i]

\* position i is the first one whose record has the greatest duration
FirstLongest(holidays, i) ==
    /\ \A j \in 1..Len(holidays) : DaysOf(holidays[j]) <= DaysOf(holidays[i])
    /\ \A j \in 1..(i - 1) : DaysOf(holidays[j]) < DaysOf(holidays[i])

\* position i is the first one whose record has the least duration
FirstShortest(holidays, i) ==
    /\ \A j \in 1..Len(holidays) : DaysOf(holidays[j]) >= DaysOf(holidays[i])
    /\ \A j \in 1..(i - 1) : DaysOf(holidays[j]) > DaysOf(holidays[i])

(***************************************************************************)
(* C27: in the statistics of a loadable year with records, longestHoliday  *)
(* is the first record in collection order of the greatest duration and    *)
(* shortestHoliday the first one of the least duration, each with its      *)
(* duration added.                                                         *)
(***************************************************************************)
C27_FirstOfTiesReported ==
    (pc = "done" /\ call.route = "stats" /\ ret.status = 200 /\ ret.body.totalHolidays > 0)
    => LET holidays == RecordsOfResponse(ret.body.year)
       IN /\ \E i \in 1..Len(holidays) :
                 FirstLongest(holidays, i) /\ ret.body.longestHoliday = Annotated(holidays, i)
          /\ \E i \in 1..Len(holidays) :
                 FirstShortest(holidays, i) /\ ret.body.shortestHoliday = Annotated(holidays, i)

\* two records of 14 days: the first is the longest and the shortest
C27_Witness ==
    /\ pc = "done"
    /\ call.route = "stats"
    /\ ret.status = 200
    /\ RecordsOfResponse(ret.body.year) = <<herbstBW2024, weihnachtBY2024>>
    /\ ret.body.longestHoliday = ("duration" :> 14) @@ herbstBW2024
    /\ ret.body.shortestHoliday = ("duration" :> 14) @@ herbstBW2024

(***************************************************************************)
(* The life of the cache.                                                  *)
(***************************************************************************)
\* the key and the file of the year a loadYearData call was given
KeyOf(c) == JSString(c.year)
FileOf(c) == JSString(c.year) \o <<".","j","s","o","n">>

C28_Step ==
    /\ call'.fn # "clearCache" =>
           \A k \in DOMAIN cache : k \in DOMAIN cache' /\ cache'[k] = cache[k]
    /\ call'.fn = "clearCache" => cache' = EmptyMap
    /\ (call'.fn = "loadYearData" /\ KeyOf(call') \notin DOMAIN cache) =>
           /\ Count(reads', FileOf(call')) = Count(reads, FileOf(call')) + 1
           /\ Loadable(KeyOf(call')) =>
                  /\ KeyOf(call') \in DOMAIN cache'
                  /\ cache'[KeyOf(call')] = RecordsOf(KeyOf(call'))

(***************************************************************************)
(* C28: the cache starts empty; loadYearData, getAllData and isHealthy     *)
(* never remove or replace an entry; clearCache empties the cache; and a   *)
(* loadYearData of a year that is not cached, after clearCache as at the   *)
(* start, reads the file and puts its records into the cache.              *)
(***************************************************************************)
C28_CacheLifecycle == (cache = EmptyMap) /\ [][C28_Step]_vars

\* a year that was loaded and cleared is loaded from its file a second time
C28_Witness ==
    /\ call.fn = "loadYearData"
    /\ ~call.hit
    /\ ret.ok
    /\ Count(reads, FileOf(call)) = 2
    /\ KeyOf(call) \in DOMAIN cache

C29_Step ==
    (call'.fn = "loadYearData" /\ ~ret'.ok) =>
        /\ cache' = cache
        /\ KeyOf(call') \notin DOMAIN cache'
        /\ Count(reads', FileOf(call')) = Count(reads, FileOf(call')) + 1

(***************************************************************************)
(* C29: a loadYearData that fails leaves the cache as it was, with no      *)
(* entry for the year, and every such call has tried to read the file: a   *)
(* failure is not remembered, a later call for the year reads again.       *)
(***************************************************************************)
C29_FailureNotCached == [][C29_Step]_vars

\* the second failing call for a year has read its file a second time
C29_Witness ==
    /\ call.fn = "loadYearData"
    /\ ~ret.ok
    /\ Count(reads, FileOf(call)) = 2
    /\ KeyOf(call) \notin DOMAIN cache


====
